---- MODULE Spec2Model ----
(***************************************************************************)
(* A model of quantax's Pfaffian engine: utils/linalg.py (pfaffian, det),  *)
(* model/neural_fermion.py (orbital assembly, low-rank update, symmetry    *)
(* projection).                                                            *)
(*                                                                         *)
(* Floating-point numbers are modelled as fixed-point numbers: the integer *)
(* a stands for the real a / SC.  Every operation rounds, symmetrically in *)
(* the sign as IEEE arithmetic does, so equalities between computed values *)
(* are stated up to a tolerance, except where the code's own arithmetic    *)
(* makes them exact.                                                       *)
(***************************************************************************)
EXTENDS Integers, Sequences, FiniteSets, TLC

VARIABLES
    pc,             \* pfaffian: "call" | "loop" | "ret" ("idle" elsewhere)
    A_in,           \* pfaffian: the argument A
    A,              \* pfaffian: body_fun's A
    pfaffian_val,   \* pfaffian: body_fun's pfaffian_val, then the result
    i,              \* pfaffian: fori_loop's counter: the elimination steps run
    F,              \* _FullOrbsLayerPfaffian.F: [ndim, data]
    F_hidden,       \* _FullOrbsLayerPfaffian.F_hidden: [ndim, data]
    index,          \* _FullOrbsLayerPfaffian.index
    scale,          \* _FullOrbsLayerPfaffian.scale_layer.scale
    fwd,            \* forward: [called, full_orbs, psi], the matrix last
                    \* passed to pfaffian and the value returned
    samples,        \* the sampler's configurations, one for each sample
    cache,          \* the cached internal values, one entry for each sample
    ret,            \* the last call on the incremental path and what it returned
    nsteps,         \* the number of moves the chain of sample 0 has made
    trans_symm,     \* the layer's trans_symm: NoSymmetry for None, else the
                    \* tables of a Symmetry
    sublattice,     \* the layer's sublattice: << >> for None
    proj,           \* the last call of the symmetry projection and what it
                    \* returned
    vjp,            \* pfaffian's custom_vjp: the last call of _pfa_fwd or
                    \* _pfa_bwd and what it returned
    batch,          \* the Samples objects alive and the last call on them
    built           \* the last constructor call and its outcome

pfvars == <<pc, A_in, A, pfaffian_val, i>>
layervars == <<F, F_hidden, index, scale>>
orbvars == <<fwd>>
chainvars == <<samples, cache, ret, nsteps>>
symvars == <<trans_symm, sublattice, proj>>
auxvars == <<vjp, batch, built>>
vars == <<pfvars, layervars, orbvars, chainvars, symvars, auxvars>>

NoCall == "none"
NoForward == [called |-> FALSE, full_orbs |-> << >>, psi |-> 0]
NoChain == samples = << >> /\ cache = << >> /\ ret = NoCall /\ nsteps = 0

\* trans_symm = None
NoSymmetry == [present |-> FALSE]
NoProj ==
    [op |-> "idle", s |-> << >>, x_full |-> << >>, x_sub |-> << >>, s_symm |-> << >>, psi |-> 0]
NoSym == trans_symm = NoSymmetry /\ sublattice = << >> /\ proj = NoProj
\* no call yet on the gradient rule, on Samples, on the constructors
NoOp == [op |-> "none"]
NoAux == vjp = NoOp /\ batch = NoOp /\ built = NoOp

(***************************************************************************)
(* Fixed-point arithmetic                                                  *)
(***************************************************************************)
FracBits == 14
SC == 2 ^ FracBits
Fx(k) == k * SC

Abs(a) == IF a < 0 THEN -a ELSE a
Sgn(a, b) == IF (a < 0) = (b < 0) THEN 1 ELSE -1

\* x * y for x, y >= 0, rounded to nearest; computed in halves so that no
\* partial product leaves 32 bits
MulAbs(x, y) ==
    (x \div SC) * (y \div SC) * SC + (x \div SC) * (y % SC) + (x % SC) * (y \div SC)
        + (((x % SC) * (y % SC) + SC \div 2) \div SC)

\* a * b, rounded to nearest
MulFx(a, b) == IF a = 0 \/ b = 0 THEN 0 ELSE Sgn(a, b) * MulAbs(Abs(a), Abs(b))

RECURSIVE DivBits(_, _, _)
\* the first k binary digits of r / y, for 0 <= r < y
DivBits(r, y, k) ==
    IF k = 0 THEN 0
    ELSE IF 2 * r >= y THEN 2 ^ (k - 1) + DivBits(2 * r - y, y, k - 1)
    ELSE DivBits(2 * r, y, k - 1)

\* x / y for x >= 0, y > 0, rounded to nearest
DivAbs(x, y) == (x \div y) * SC + (DivBits(x % y, y, FracBits + 1) + 1) \div 2

\* a / b for b # 0, rounded to nearest
DivFx(a, b) == IF a = 0 THEN 0 ELSE Sgn(a, b) * DivAbs(Abs(a), Abs(b))

RECURSIVE SqrtNewton(_, _)
SqrtNewton(a, r) ==
    LET r1 == (r + DivFx(a, r)) \div 2
    IN  IF r1 >= r THEN r ELSE SqrtNewton(a, r1)

\* jnp.sqrt(a) for a >= 0
SqrtFx(a) == IF a <= 0 THEN 0 ELSE SqrtNewton(a, IF a > SC THEN a ELSE SC)

\* f itself; TLC then holds it as an explicit table, computed once, instead of
\* as an expression it evaluates at every application
Tab(f) == f @@ << >>

RECURSIVE SumTo(_, _)
\* f[0] + ... + f[n-1]
SumTo(f, n) == IF n = 0 THEN 0 ELSE SumTo(f, n - 1) + f[n - 1]

Size(M) == Cardinality(DOMAIN M)

\* jnp.vdot(x, y) for real arrays
Vdot(x, y) == SumTo([k \in DOMAIN x |-> MulFx(x[k], y[k])], Size(x))

\* (M @ v)
MatVec(M, v) == Tab([r \in DOMAIN M |-> SumTo([k \in DOMAIN v |-> MulFx(M[r][k], v[k])], Size(v))])

Max(a, b) == IF a >= b THEN a ELSE b

\* equality of two computed numbers up to rounding: 2^6 units in the last
\* place, relative to the larger of 1 and the two magnitudes
Close(a, b) == Abs(a - b) <= (SC + Max(Abs(a), Abs(b))) \div 2 ^ (FracBits - 6)

(***************************************************************************)
(* utils/linalg.py: _householder_n, pfaffian                               *)
(***************************************************************************)
\* v / d
DivVec(v, d) == Tab([k \in DOMAIN v |-> DivFx(v[k], d)])

\* v / jnp.linalg.norm(v), for v # 0
Normalized(v) == DivVec(v, SqrtFx(Vdot(v, v)))

\* _householder_n with the sign of alpha lost (alpha = phase * norm_x)
householder_alpha_sign(x_in, n) ==
    LET arange == DOMAIN x_in
        xn == x_in[n]
        x == Tab([k \in arange |-> IF k <= n THEN 0 ELSE x_in[k]])
        sigma == Vdot(x, x)
        norm_x == SqrtFx(MulFx(xn, xn) + sigma)
        phase == IF xn = 0 THEN Fx(1) ELSE DivFx(xn, Abs(xn))
        vn == xn + MulFx(phase, norm_x)
        alpha0 == MulFx(phase, norm_x)
        v0 == Tab([k \in arange |-> IF k = n THEN vn ELSE x[k]])
        cond == sigma = 0
    IN  [v |-> IF cond THEN Tab([k \in arange |-> 0]) ELSE Normalized(v0),
         tau |-> IF cond THEN 0 ELSE 2,
         alpha |-> IF cond THEN xn ELSE alpha0]

\* _householder_n without the test of sigma (lines 44-47): it always reflects
householder_always_reflects(x_in, n) ==
    LET arange == DOMAIN x_in
        xn == x_in[n]
        x == Tab([k \in arange |-> IF k <= n THEN 0 ELSE x_in[k]])
        sigma == Vdot(x, x)
        norm_x == SqrtFx(MulFx(xn, xn) + sigma)
        phase == IF xn = 0 THEN Fx(1) ELSE DivFx(xn, Abs(xn))
        vn == xn + MulFx(phase, norm_x)
        alpha0 == - MulFx(phase, norm_x)
        v0 == Tab([k \in arange |-> IF k = n THEN vn ELSE x[k]])
    IN  [v |-> Normalized(v0), tau |-> 2, alpha |-> alpha0]

\* _householder_n(x, n): the Householder vector v, tau and alpha; in
\* where(cond, zeros, v / norm(v)) the quotient is not defined when norm(v) = 0,
\* which happens only under cond, where it is discarded
_householder_n(x_in, n) ==
    LET arange == DOMAIN x_in
        xn == x_in[n]
        x == Tab([k \in arange |-> IF k <= n THEN 0 ELSE x_in[k]])
        sigma == Vdot(x, x)
        norm_x == SqrtFx(MulFx(xn, xn) + sigma)
        phase == IF xn = 0 THEN Fx(1) ELSE DivFx(xn, Abs(xn))
        vn == xn + MulFx(phase, norm_x)
        alpha0 == - MulFx(phase, norm_x)
        v0 == Tab([k \in arange |-> IF k = n THEN vn ELSE x[k]])
        cond == sigma = 0
    IN  [v |-> IF cond THEN Tab([k \in arange |-> 0]) ELSE Normalized(v0),
         tau |-> IF cond THEN 0 ELSE 2,
         alpha |-> IF cond THEN xn ELSE alpha0]

\* M[r, c] with numpy's indexing: a negative index counts from the end
At(M, r, c) == M[r % Size(M)][c % Size(M)]

Column(M, c) == Tab([r \in DOMAIN M |-> M[r][c]])

\* lines 61-66 of body_fun: the update of (A, pfaffian_val) by the Householder
\* triple h = (v, tau, alpha) of line 60; the factor -alpha is applied at the
\* even steps, or at every step when every_step holds
body_fun_update(ii, val, h, every_step) ==
    LET tauA == Tab([r \in DOMAIN val.A |-> Tab([c \in DOMAIN val.A |-> h.tau * val.A[r][c]])])
        w == MatVec(tauA, h.v)
        p1 == val.pfaffian_val * (1 - h.tau)
    IN  [A |-> Tab([r \in DOMAIN val.A |-> Tab([c \in DOMAIN val.A |->
                   val.A[r][c] + MulFx(h.v[r], w[c]) - MulFx(w[r], h.v[c])])]),
         pfaffian_val |-> IF every_step \/ ii % 2 = 0 THEN MulFx(p1, - h.alpha) ELSE p1]

\* body_fun with the pivot factor -alpha applied at every step, not only at
\* the even ones
body_fun_every_step(ii, val) ==
    body_fun_update(ii, val, _householder_n(Column(val.A, ii), ii + 1), TRUE)

\* body_fun(i, val) of pfaffian, val = (A, pfaffian_val)
body_fun(ii, val) ==
    body_fun_update(ii, val, _householder_n(Column(val.A, ii), ii + 1), FALSE)

RECURSIVE fori_loop(_, _, _)
\* jax.lax.fori_loop(lower, upper, body_fun, val)
fori_loop(lower, upper, val) ==
    IF lower >= upper THEN val
    ELSE fori_loop(lower + 1, upper, body_fun(lower, val))

\* lines 70-72: pfaffian_val * A[n - 2, n - 1] for the loop's result val
pfaffian_return(val) ==
    MulFx(val.pfaffian_val, At(val.A, Size(val.A) - 2, Size(val.A) - 1))

\* pfaffian(A): A is a function 0..n-1 -> (0..n-1 -> fixed-point number)
pfaffian(M) ==
    IF Size(M) % 2 = 1 THEN 0
    ELSE pfaffian_return(fori_loop(0, Size(M) - 2, [A |-> M, pfaffian_val |-> Fx(1)]))

\* jnp.linalg.det(A): LU factorisation with partial pivoting, then the
\* product of the pivots with the sign of the row exchanges
MaxAbsRow(M, k) ==
    CHOOSE r \in k .. Size(M) - 1 :
        \A q \in k .. Size(M) - 1 :
            \/ Abs(M[r][k]) > Abs(M[q][k])
            \/ Abs(M[r][k]) = Abs(M[q][k]) /\ r <= q

SwapRows(M, a, b) ==
    Tab([r \in DOMAIN M |-> IF r = a THEN M[b] ELSE IF r = b THEN M[a] ELSE M[r]])

Eliminate(M, k) ==
    Tab([r \in DOMAIN M |-> Tab([c \in DOMAIN M |->
        IF r > k THEN M[r][c] - MulFx(DivFx(M[r][k], M[k][k]), M[k][c])
        ELSE M[r][c]])])

RECURSIVE LuDet(_, _, _)
LuDet(M, k, acc) ==
    IF k = Size(M) THEN acc
    ELSE LET p == MaxAbsRow(M, k)
         IN  IF M[p][k] = 0 THEN 0
             ELSE LuDet(Eliminate(SwapRows(M, k, p), k), k + 1,
                        MulFx(IF p = k THEN acc ELSE - acc, M[p][k]))

det(M) == LuDet(M, 0, Fx(1))

(***************************************************************************)
(* Inputs of the pfaffian machine                                          *)
(***************************************************************************)
MaxEntry == 1
Entries == (-MaxEntry) .. MaxEntry

\* the skew-symmetric matrix of size n with upper triangle u (row-major)
UpperIndex(n, r, c) == r * n - (r * (r + 1)) \div 2 + (c - r - 1)
Skew(n, u) ==
    [r \in 0 .. n - 1 |-> [c \in 0 .. n - 1 |->
        IF r < c THEN Fx(u[UpperIndex(n, r, c) + 1])
        ELSE IF r > c THEN - Fx(u[UpperIndex(n, c, r) + 1])
        ELSE 0]]

SpecMatrix == Skew(4, <<1, 2, 3, 4, 5, 6>>)

SkewAll(n) == { Skew(n, u) : u \in [1 .. (n * (n - 1)) \div 2 -> Entries] }

\* the skew-symmetric Toeplitz matrix of size n: A[r][c] = t[c - r] for r < c
Toeplitz(n, t) ==
    [r \in 0 .. n - 1 |-> [c \in 0 .. n - 1 |->
        IF r < c THEN Fx(t[c - r]) ELSE IF r > c THEN - Fx(t[r - c]) ELSE 0]]

ToeplitzAll(n) == { Toeplitz(n, t) : t \in [1 .. n - 1 -> Entries] }

\* the matrix of size n with every entry e (not skew-symmetric unless e = 0)
Constant(n, e) == [r \in 0 .. n - 1 |-> [c \in 0 .. n - 1 |-> Fx(e)]]

OddSizes == {1, 3, 5}

\* every skew-symmetric matrix of size 1 to 4 with entries in Entries, the
\* matrix of the documented scenario, the skew-symmetric Toeplitz matrices of
\* size 5 and 6, and constant matrices of odd size
PfInputs ==
    SkewAll(1) \cup SkewAll(2) \cup SkewAll(3) \cup SkewAll(4)
        \cup {SpecMatrix} \cup ToeplitzAll(5) \cup ToeplitzAll(6)
        \cup { Constant(n, e) : n \in OddSizes, e \in Entries }

IsSkew(M) == \A r \in DOMAIN M : \A c \in DOMAIN M : M[r][c] = - M[c][r]

(***************************************************************************)
(* The pfaffian machine: one action per step of pfaffian(A)                *)
(***************************************************************************)
PfInit ==
    /\ A_in \in PfInputs
    /\ A = A_in
    /\ pfaffian_val = 0
    /\ i = 0
    /\ pc = "call"
    /\ F = NoCall /\ F_hidden = NoCall /\ index = NoCall /\ scale = NoCall
    /\ fwd = NoForward
    /\ NoChain
    /\ NoSym
    /\ NoAux

\* pfaffian without the test of lines 55-56
PfCall_no_odd_test ==
    /\ pc = "call"
    /\ pfaffian_val' = Fx(1)
    /\ pc' = "loop"
    /\ UNCHANGED <<A_in, A, i, layervars, orbvars, chainvars, symvars, auxvars>>

\* lines 54-56 and 68: the odd-size return, or the loop's init_val
PfCall ==
    /\ pc = "call"
    /\ IF Size(A_in) % 2 = 1
       THEN /\ pfaffian_val' = 0
            /\ pc' = "ret"
       ELSE /\ pfaffian_val' = Fx(1)
            /\ pc' = "loop"
    /\ UNCHANGED <<A_in, A, i, layervars, orbvars, chainvars, symvars, auxvars>>

\* lines 58-66 and 69: one iteration of fori_loop(0, n - 2, body_fun, init_val)
PfBody ==
    /\ pc = "loop"
    /\ i < Size(A_in) - 2
    /\ \E val \in {body_fun(i, [A |-> A, pfaffian_val |-> pfaffian_val])} :
          /\ A' = val.A
          /\ pfaffian_val' = val.pfaffian_val
    /\ i' = i + 1
    /\ UNCHANGED <<pc, A_in, layervars, orbvars, chainvars, symvars, auxvars>>

\* lines 70-72: pfaffian_val *= A[n - 2, n - 1]; return
PfReturn ==
    /\ pc = "loop"
    /\ i >= Size(A_in) - 2
    /\ pfaffian_val' = MulFx(pfaffian_val, At(A, Size(A_in) - 2, Size(A_in) - 1))
    /\ pc' = "ret"
    /\ UNCHANGED <<A_in, A, i, layervars, orbvars, chainvars, symvars, auxvars>>

PfNext == PfCall \/ PfBody \/ PfReturn

SpecPf == PfInit /\ [][PfNext]_vars

(***************************************************************************)
(* Claims about pfaffian                                                   *)
(***************************************************************************)
\* the nearest integer to a fixed-point number
Round(a) == IF a >= 0 THEN (a + SC \div 2) \div SC ELSE - ((SC \div 2 - a) \div SC)

\* C2: for every even n and every skew-symmetric n x n matrix A, the square of
\* the value pfaffian(A) returns equals det(A), up to rounding.
C2_PfaffianSquaredIsDet ==
    (pc = "ret" /\ Size(A_in) % 2 = 0 /\ IsSkew(A_in))
        => Close(MulFx(pfaffian_val, pfaffian_val), det(A_in))

\* a 6 x 6 matrix was reduced in 4 steps and its Pfaffian is not zero
C2_Witness ==
    pc = "ret" /\ Size(A_in) = 6 /\ i = 4 /\ Abs(pfaffian_val) > SC

\* the closed form of the Pfaffian of a 4 x 4 matrix
Pf4(M) == MulFx(M[0][1], M[2][3]) - MulFx(M[0][2], M[1][3]) + MulFx(M[0][3], M[1][2])

\* C3: for every 4 x 4 skew-symmetric matrix A, pfaffian(A) returns the closed
\* form A01 A23 - A02 A13 + A03 A12 up to rounding, sign included, and for the
\* matrix of the documented scenario the value it returns rounds to 8.
C3_ClosedForm4 ==
    (pc = "ret" /\ Size(A_in) = 4 /\ IsSkew(A_in))
        => /\ Close(pfaffian_val, Pf4(A_in))
           /\ A_in = SpecMatrix => Round(pfaffian_val) = 8 /\ Close(pfaffian_val, Fx(8))

C3_Witness == pc = "ret" /\ A_in = SpecMatrix /\ i = 2

\* C4: for a matrix of odd size pfaffian returns 0, and no elimination step
\* runs: the loop is never entered and A is left as it was passed.
C4_OddSizeIsZero ==
    Size(A_in) % 2 = 1
        => /\ pc # "loop"
           /\ i = 0
           /\ A = A_in
           /\ pc = "ret" => pfaffian_val = 0

\* pfaffian has returned for a 3 x 3 matrix that is not zero
C4_Witness == pc = "ret" /\ Size(A_in) = 3 /\ A_in[0][1] # 0

(***************************************************************************)
(* model/neural_fermion.py: _FullOrbsLayerPfaffian                         *)
(*                                                                         *)
(* The lattice has three sites (get_sites().N), so six fermionic modes, of *)
(* which four are occupied (get_sites().Ntotal), and the layer has two     *)
(* hidden fermions (Nhidden).  A configuration s gives +1 to an occupied   *)
(* mode and -1 to an empty one.  A complex array is a pair [re, im] of     *)
(* real arrays.                                                            *)
(***************************************************************************)
Sites == 0 .. 2
N == Cardinality(Sites)
Modes == 0 .. 2 * N - 1
Ntotal == 4
Hidden == 0 .. 1
Nhidden == Cardinality(Hidden)
Params == 0 .. 1

Configs == { s \in [Modes -> {-1, 1}] : Cardinality({m \in Modes : s[m] > 0}) = Ntotal }

Zeros(rows, cols) == [r \in rows |-> [c \in cols |-> 0]]
NRows(M) == Size(M)
NCols(M) == Size(M[0])

\* fermion_mf._get_fermion_idx(s, Ntotal): the occupied modes of s, ascending
_get_fermion_idx(s, n) ==
    Tab([k \in 0 .. n - 1 |->
        CHOOSE m \in DOMAIN s : s[m] > 0 /\ Cardinality({q \in DOMAIN s : s[q] > 0 /\ q < m}) = k])

\* the real and the imaginary part of a parameter array: the array itself when
\* it has one dimension, jax.lax.complex(P[0], P[1]) when it has two
Parts(P) ==
    IF P.ndim = 1
    THEN [re |-> P.data, im |-> [k \in DOMAIN P.data |-> 0]]
    ELSE [re |-> P.data[0], im |-> P.data[1]]

OnParts(Op(_), z) == [re |-> Op(z.re), im |-> Op(z.im)]

\* nn.Scale: x * scale, for a matrix x
scale_layer(M) == Tab([r \in DOMAIN M |-> Tab([c \in DOMAIN M[r] |-> MulFx(M[r][c], scale)])])

\* M - M.T
MinusTranspose(M) == Tab([r \in DOMAIN M |-> Tab([c \in DOMAIN M |-> M[r][c] - M[c][r]])])

\* F_full of a layer that forgets "- F_full.T"
F_full_no_transpose ==
    OnParts(LAMBDA v : scale_layer([r \in DOMAIN index |-> [c \in DOMAIN index |-> v[index[r][c]]]]),
            Parts(F))

\* _FullOrbsLayerPfaffian.F_full
F_full ==
    OnParts(LAMBDA v : scale_layer(MinusTranspose(
                [r \in DOMAIN index |-> [c \in DOMAIN index |-> v[index[r][c]]]])),
            Parts(F))

\* _FullOrbsLayerPfaffian.F_hidden_full: the parameters fill the upper
\* triangle (jnp.triu_indices(Nhidden, 1)) of a zero matrix
F_hidden_full ==
    OnParts(LAMBDA v : scale_layer(MinusTranspose(
                [r \in Hidden |-> [c \in Hidden |->
                    IF r < c THEN v[UpperIndex(Nhidden, r, c)] ELSE 0]])),
            Parts(F_hidden))

\* jnp.block([[a, b], [c, d]])
Block(a, b, c, d) ==
    LET n == NRows(a)
        m == NRows(d)
    IN  Tab([r \in 0 .. n + m - 1 |-> Tab([q \in 0 .. n + m - 1 |->
            IF r < n THEN (IF q < n THEN a[r][q] ELSE b[r][q - n])
            ELSE (IF q < n THEN c[r - n][q] ELSE d[r - n][q - n])])])

Transpose(M) == Tab([c \in DOMAIN M[0] |-> Tab([r \in DOMAIN M |-> M[r][c]])])
Neg(M) == Tab([r \in DOMAIN M |-> Tab([c \in DOMAIN M[r] |-> - M[r][c]])])

\* M[idx, :][:, idx]
Slice(M, idx) == Tab([r \in DOMAIN idx |-> Tab([c \in DOMAIN idx |-> M[idx[r]][idx[c]]])])
\* x[:, idx]
Cols(x, idx) == Tab([h \in DOMAIN x |-> Tab([c \in DOMAIN idx |-> x[h][idx[c]]])])

\* the matrix forward(x, s) passes to pfaffian, one real part at a time
full_orbs_part(Ff, x, Fh, idx) ==
    LET sliced_pfa == Slice(Ff, idx)
        pairing == Transpose(Cols(x, idx))
    IN  Block(sliced_pfa, pairing, Neg(Transpose(pairing)), Fh)

\* lines 340-349 of forward(x, s)
forward_orbs(x, s) ==
    LET idx == _get_fermion_idx(s, Ntotal)
    IN  [re |-> full_orbs_part(F_full.re, x.re, F_hidden_full.re, idx),
         im |-> full_orbs_part(F_full.im, x.im, F_hidden_full.im, idx)]

\* lines 339-350: forward(x, s); the Pfaffian of a complex matrix is not
\* modelled, only the matrix that is passed
forward(x, s) ==
    IF F.ndim = 1 THEN pfaffian(forward_orbs(x, s).re) ELSE "complex"

\* pfa_eye(rank, dtype) = [[0, I], [-I, 0]]
pfa_eye(rank) ==
    Tab([r \in 0 .. 2 * rank - 1 |-> Tab([c \in 0 .. 2 * rank - 1 |->
        IF c = r + rank THEN Fx(1) ELSE IF r = c + rank THEN - Fx(1) ELSE 0])])

\* jnp.triu_indices(n, 1): the k-th pair (r, c) with r < c, row by row
TriuPair(n, k) ==
    CHOOSE rc \in (0 .. n - 1) \X (0 .. n - 1) :
        rc[1] < rc[2] /\ UpperIndex(n, rc[1], rc[2]) = k

HiddenPairs == 0 .. (Nhidden * (Nhidden - 1)) \div 2 - 1

\* lines 276-285: F_hidden as __init__ leaves it, stored with ndim dimensions
F_hidden_init(ndim) ==
    LET re == [k \in HiddenPairs |->
                  2 * pfa_eye(Nhidden \div 2)[TriuPair(Nhidden, k)[1]][TriuPair(Nhidden, k)[2]]]
        im == [k \in HiddenPairs |-> 0]
    IN  IF ndim = 1 THEN [ndim |-> 1, data |-> re]
        ELSE [ndim |-> 2, data |-> (0 :> re @@ 1 :> im)]

\* line 291: Scale(np.sqrt(np.e / Ntotal)), Ntotal = sites.Ntotal + Nhidden
EulerFx == (2718 * SC) \div 1000
scale_init == SqrtFx(DivFx(EulerFx, Fx(Ntotal + Nhidden)))

(***************************************************************************)
(* The layer machine: construction, then parameter updates, rescale and    *)
(* forward calls                                                           *)
(***************************************************************************)
\* the values a parameter takes
FxEntries == {- Fx(1), Fx(1) \div 2, Fx(2)}

\* the index maps the machine is built with: index[r][c] = (a r + b c + d) mod
\* the number of parameters
IndexMaps ==
    { [r \in Modes |-> [c \in Modes |-> (ab[1] * r + ab[2] * c) % Cardinality(Params)]] :
        ab \in {<<1, 0>>, <<1, 1>>, <<0, 0>>} }

\* the imaginary part the parameters F are given when they are complex
ImPattern == [k \in Params |-> Fx(k + 1)]

\* the pairing tensors forward is called with
PairingArgs(ndim) ==
    { [re |-> [h \in Hidden |-> [m \in Modes |-> Fx(m - h - d)]],
       im |-> [h \in Hidden |-> [m \in Modes |-> IF ndim = 1 THEN 0 ELSE Fx(h + d)]]] :
        d \in 0 .. 1 }

OrbInit ==
    /\ pc = "idle" /\ A_in = NoCall /\ A = NoCall /\ pfaffian_val = NoCall /\ i = NoCall
    /\ F \in { [ndim |-> 1, data |-> re] : re \in [Params -> FxEntries] }
            \cup { [ndim |-> 2, data |-> (0 :> re @@ 1 :> ImPattern)] : re \in [Params -> FxEntries] }
    /\ F_hidden = F_hidden_init(F.ndim)
    /\ index \in IndexMaps
    /\ scale = scale_init
    /\ fwd = NoForward
    /\ NoChain
    /\ NoSym
    /\ NoAux

SetReal(P, k, v) ==
    IF P.ndim = 1 THEN [P EXCEPT !.data[k] = v] ELSE [P EXCEPT !.data[0][k] = v]

\* an optimiser step gives one parameter a new value
OrbTrain ==
    /\ ~ fwd.called
    /\ \E v \in FxEntries :
          \/ \E k \in Params : F' = SetReal(F, k, v) /\ F_hidden' = F_hidden
          \/ \E k \in HiddenPairs : F_hidden' = SetReal(F_hidden, k, v) /\ F' = F
    /\ UNCHANGED <<pfvars, index, scale, orbvars, chainvars, symvars, auxvars>>

\* lines 352-358: rescale(maximum) divides the scale by maximum ** (1 / Ntotal);
\* root is that root of maximum
OrbRescale ==
    /\ ~ fwd.called
    /\ \E root \in {Fx(2), Fx(1) \div 2} :
          /\ scale' = DivFx(scale, root)
          /\ scale' >= scale_init \div 2
          /\ scale' <= scale_init
    /\ UNCHANGED <<pfvars, F, F_hidden, index, orbvars, chainvars, symvars, auxvars>>

\* forward(x, s)
OrbForward ==
    /\ ~ fwd.called
    /\ \E s \in Configs : \E x \in PairingArgs(F.ndim) :
          fwd' = [called |-> TRUE, full_orbs |-> forward_orbs(x, s), psi |-> forward(x, s)]
    /\ UNCHANGED <<pfvars, layervars, chainvars, symvars, auxvars>>

\* the caller takes the value
OrbReturn ==
    /\ fwd.called
    /\ fwd' = NoForward
    /\ UNCHANGED <<pfvars, layervars, chainvars, symvars, auxvars>>

OrbNext == OrbTrain \/ OrbRescale \/ OrbForward \/ OrbReturn

SpecOrb == OrbInit /\ [][OrbNext]_vars

(***************************************************************************)
(* Claims about the orbital matrix                                         *)
(***************************************************************************)
IsSkewC(z) == IsSkew(z.re) /\ IsSkew(z.im)

\* C9: whatever the parameters F and F_hidden, the index map, the scale and
\* the configuration, F_full, F_hidden_full and the block matrix forward
\* passes to pfaffian are antisymmetric, with a zero diagonal.
C9_Antisymmetric ==
    /\ IsSkewC(F_full)
    /\ IsSkewC(F_hidden_full)
    /\ fwd.called => IsSkewC(fwd.full_orbs)

\* forward has built a complex block matrix whose visible, cross and hidden
\* blocks are not zero, after a rescale
C9_Witness ==
    /\ fwd.called
    /\ F.ndim = 2
    /\ scale # scale_init
    /\ fwd.full_orbs.re[0][1] # 0 /\ fwd.full_orbs.im[0][1] # 0
    /\ fwd.full_orbs.re[0][Ntotal] # 0 /\ fwd.full_orbs.im[0][Ntotal] # 0
    /\ fwd.full_orbs.re[Ntotal][Ntotal + 1] # 0

(***************************************************************************)
(* model/neural_fermion.py: HiddenPfaffian, the incremental path           *)
(*                                                                         *)
(* Arrays are functions on 0 .. n-1; an array of length 0 is << >>.  The   *)
(* parameters are real here (F.ndim = 1), so only the real parts are used. *)
(***************************************************************************)
\* X @ Y
MatMul(X, Y) ==
    Tab([r \in DOMAIN X |-> Tab([c \in DOMAIN Y[0] |->
        SumTo([k \in DOMAIN Y |-> MulFx(X[r][k], Y[k][c])], Size(Y))])])

MatSub(X, Y) == Tab([r \in DOMAIN X |-> Tab([c \in DOMAIN X[r] |-> X[r][c] - Y[r][c]])])

\* jnp.concatenate((a, b)) along the first axis
Concat(a, b) ==
    Tab([k \in 0 .. Size(a) + Size(b) - 1 |-> IF k < Size(a) THEN a[k] ELSE b[k - Size(a)]])

RECURSIVE GaussJordan(_, _)
\* the elimination of column k, k+1, ... of W = [M | I], with partial pivoting
GaussJordan(W, k) ==
    IF k = Size(W) THEN W
    ELSE LET S == SwapRows(W, k, MaxAbsRow(W, k))
             rowk == Tab([c \in DOMAIN S[k] |-> DivFx(S[k][c], S[k][k])])
         IN  GaussJordan(
                 Tab([r \in DOMAIN S |->
                     IF r = k THEN rowk
                     ELSE Tab([c \in DOMAIN S[r] |-> S[r][c] - MulFx(S[r][k], rowk[c])])]),
                 k + 1)

\* the right half of W = [L | R]
RightHalf(W) ==
    Tab([r \in DOMAIN W |-> Tab([c \in DOMAIN W |-> W[r][c + Size(W)]])])

\* jnp.linalg.inv(M), for an invertible M
linalg_inv(M) ==
    RightHalf(GaussJordan(
        Tab([r \in DOMAIN M |-> Tab([c \in 0 .. 2 * Size(M) - 1 |->
            IF c < Size(M) THEN M[r][c] ELSE IF c - Size(M) = r THEN Fx(1) ELSE 0])]),
        0))

\* the k-th smallest element of a set of numbers, k = 0, 1, ...
Nth(S, k) == CHOOSE m \in S : Cardinality({q \in S : q < m}) = k

\* fermion_mf._get_changed_inds(flips, nflips, n): the nflips modes that were
\* emptied and the nflips modes that were filled, each ascending
_get_changed_inds(flips, nflips, n) ==
    [old_idx |-> Tab([k \in 0 .. nflips - 1 |-> Nth({m \in 0 .. n - 1 : flips[m] = -1}, k)]),
     new_idx |-> Tab([k \in 0 .. nflips - 1 |-> Nth({m \in 0 .. n - 1 : flips[m] = 1}, k)])]

\* fermion_mf._idx_to_canon(old_idx, occ_idx): where each replaced mode sits
\* in the occupancy index
_idx_to_canon(old_idx, occ_idx) ==
    Tab([a \in DOMAIN old_idx |-> CHOOSE k \in DOMAIN occ_idx : occ_idx[k] = old_idx[a]])

\* occ_idx.at[old_loc].set(new_idx)
at_set(occ_idx, old_loc, new_idx) ==
    Tab([k \in DOMAIN occ_idx |->
        IF \E a \in DOMAIN old_loc : old_loc[a] = k
        THEN new_idx[CHOOSE a \in DOMAIN old_loc : old_loc[a] = k]
        ELSE occ_idx[k]])

\* the sign of the permutation that sorts idx
SortSign(idx) ==
    IF Cardinality({p \in (DOMAIN idx) \X (DOMAIN idx) : p[1] < p[2] /\ idx[p[1]] > idx[p[2]]}) % 2 = 0
    THEN 1 ELSE -1

\* fermion_mf._parity_pfa(new_idx, old_idx, occ_idx): the parity of the
\* permutation from the occupancy order with the replaced modes put in place
\* to the ascending order
_parity_pfa(new_idx, old_idx, occ_idx) ==
    SortSign(at_set(occ_idx, _idx_to_canon(old_idx, occ_idx), new_idx))

\* an argsort that leaves the order as it is
no_sort(idx) == Tab([k \in DOMAIN idx |-> k])

\* an argsort into the descending order
argsort_descending(idx) == Tab([k \in DOMAIN idx |-> CHOOSE j \in DOMAIN idx :
                               Cardinality({q \in DOMAIN idx : idx[q] > idx[j]}) = k])

\* jnp.argsort(idx)
argsort(idx) == Tab([k \in DOMAIN idx |-> CHOOSE j \in DOMAIN idx :
                    Cardinality({q \in DOMAIN idx : idx[q] < idx[j]}) = k])

\* utils.array_set(U.T, V.T / 2, loc).T: column loc[a] of U becomes column a
\* of V, halved
array_set_T(U, V, loc) ==
    Tab([r \in DOMAIN U |-> Tab([c \in DOMAIN U[r] |->
        IF \E a \in DOMAIN loc : loc[a] = c
        THEN DivFx(V[r][CHOOSE a \in DOMAIN loc : loc[a] = c], Fx(2))
        ELSE U[r][c]])])

\* the rows of B^T = [E; update], E the rows idx of the identity of size n
pfa_update_rows(update, idx, n) ==
    Tab([r \in 0 .. 2 * Size(idx) - 1 |->
        IF r < Size(idx) THEN Tab([c \in 0 .. n - 1 |-> IF idx[r] = c THEN Fx(1) ELSE 0])
        ELSE update[r - Size(idx)]])

\* G + [[0, -I], [I, 0]], the blocks of size K
pfa_update_mat(G, K) ==
    Tab([r \in 0 .. 2 * K - 1 |-> Tab([c \in 0 .. 2 * K - 1 |->
        G[r][c] + (IF c = r + K THEN - Fx(1) ELSE IF r = c + K THEN Fx(1) ELSE 0)])])

\* (X - X.T) / 2
HalfMinusTranspose(X) ==
    Tab([r \in DOMAIN X |-> Tab([c \in DOMAIN X |-> DivFx(X[r][c] - X[c][r], Fx(2))])])

\* the ratio and the new inverse of pfa_update, from B^T, P = B^T inv and
\* M = P B + [[0, -I], [I, 0]]; the new inverse is antisymmetric, as the
\* inverse of an InternalState is at all times
pfa_update_out(inv, Bt, P, M, K, return_inv) ==
    [rat |-> (IF ((K * (K + 1)) \div 2) % 2 = 0 THEN 1 ELSE -1) * pfaffian(M),
     inv |-> IF return_inv
             THEN HalfMinusTranspose(
                      MatSub(inv, MatMul(MatMul(MatMul(inv, Transpose(Bt)), linalg_inv(M)), P)))
             ELSE << >>]

\* utils.pfa_update(inv, update, idx, return_inv): the matrix A with inverse
\* inv becomes A + E^T update - update^T E, E the rows idx of the identity.
\* With B^T = [E; update] the correction matrix is
\* M = B^T inv B + [[0, -I], [I, 0]]; the ratio of the new Pfaffian to the old
\* is (-1)^(K (K + 1) / 2) pfaffian(M), K = len(idx), and the new inverse is
\* inv - inv B M^-1 B^T inv, made antisymmetric.
pfa_update(inv, update, idx, return_inv) ==
    IF Size(idx) = 0 THEN [rat |-> Fx(1), inv |-> inv]
    ELSE LET Bt == pfa_update_rows(update, idx, Size(inv))
             P == MatMul(Bt, inv)
             M == pfa_update_mat(MatMul(P, Transpose(Bt)), Size(idx))
         IN  pfa_update_out(inv, Bt, P, M, Size(idx), return_inv)

\* lines 459-461 of _init_internal, for the occupancy index idx and the
\* sliced orbitals
_init_internal_entry(idx, orbs) ==
    [idx |-> idx, inv |-> HalfMinusTranspose(linalg_inv(orbs)), psi |-> pfaffian(orbs)]

\* HiddenPfaffian._init_internal(s)
_init_internal(s) ==
    LET idx == _get_fermion_idx(s, Ntotal)
    IN  _init_internal_entry(idx, Slice(F_full.re, idx))

\* lines 543-551 of _low_rank_update: the replaced and the new modes, where
\* the replaced modes sit in occ_idx, and the update of the mean-field matrix
mf_update(s, s_old, nflips, occ_idx, Ff) ==
    LET flips == Tab([m \in DOMAIN s |-> (s[m] - s_old[m]) \div 2])
        ci == _get_changed_inds(flips, nflips, Size(s))
        old_idx == ci.old_idx
        new_idx == ci.new_idx
        old_loc == _idx_to_canon(old_idx, occ_idx)
        update0 == Tab([a \in DOMAIN new_idx |-> Tab([j \in DOMAIN occ_idx |->
                       Ff[new_idx[a]][occ_idx[j]] - Ff[old_idx[a]][occ_idx[j]]])])
        mat == Tab([a \in DOMAIN new_idx |-> Tab([b \in DOMAIN new_idx |->
                   Ff[new_idx[a]][new_idx[b]] - Ff[old_idx[a]][old_idx[b]]])])
    IN  [old_idx |-> old_idx, new_idx |-> new_idx, old_loc |-> old_loc, mat |-> mat,
         update |-> array_set_T(update0, mat, old_loc)]

\* a ratio that leaves the hidden block and the pairing out: the ratio of the
\* mean-field Pfaffians
full_rat_mean_field_only(u, nflips, occ_idx, old_inv, pairing, Fh) ==
    pfa_update(old_inv, u.update, u.old_loc, FALSE).rat

\* lines 553-574 of _low_rank_update: the ratio of the full Pfaffians, u being
\* what mf_update returns
full_rat(u, nflips, occ_idx, old_inv, pairing, Fh) ==
    LET Nvisible == Ntotal
        full_old_loc == Concat(u.old_loc, [h \in Hidden |-> Nvisible + h])
        id_inv == pfa_eye(Nhidden \div 2)
        nv == Size(occ_idx)
        full_inv == Tab([r \in 0 .. nv + Nhidden - 1 |-> Tab([c \in 0 .. nv + Nhidden - 1 |->
                        IF r < nv /\ c < nv THEN old_inv[r][c]
                        ELSE IF r >= nv /\ c >= nv THEN id_inv[r - nv][c - nv]
                        ELSE 0])])
        \* concatenate((update, -sliced_orbs), axis=0), then Nhidden columns of zeros
        full_update0 == Tab([r \in 0 .. nflips + Nhidden - 1 |-> Tab([c \in 0 .. nv + Nhidden - 1 |->
                            IF c >= nv THEN 0
                            ELSE IF r < nflips THEN u.update[r][c]
                            ELSE - pairing[r - nflips][occ_idx[c]]])])
        full_mat == Tab([r \in 0 .. nflips + Nhidden - 1 |-> Tab([c \in 0 .. nflips + Nhidden - 1 |->
                        IF r < nflips /\ c < nflips THEN u.mat[r][c]
                        ELSE IF r < nflips THEN pairing[c - nflips][u.new_idx[r]]
                        ELSE IF c < nflips THEN - pairing[r - nflips][u.new_idx[c]]
                        ELSE Fh[r - nflips][c - nflips] + id_inv[r - nflips][c - nflips]])])
        full_update == array_set_T(full_update0, full_mat, full_old_loc)
    IN  pfa_update(full_inv, full_update, full_old_loc, FALSE).rat

\* lines 580-586 of _low_rank_update: the new entry of the internal values,
\* sorted, mf being what pfa_update returns for the mean-field matrix
new_internal(mf, idx, old_psi, parity_mf) ==
    LET sort == argsort(idx)
    IN  [idx |-> Tab([k \in DOMAIN idx |-> idx[sort[k]]]),
         inv |-> Tab([r \in DOMAIN idx |-> Tab([c \in DOMAIN idx |-> mf.inv[sort[r]][sort[c]]])]),
         psi |-> MulFx(old_psi, mf.rat) * parity_mf]

\* a result whose new entry keeps the returned amplitude as its psi
low_rank_result_caching_returned(u, rat, occ_idx, old_inv, old_psi, return_internal) ==
    LET parity_mf == _parity_pfa(u.new_idx, u.old_idx, occ_idx)
        parity == parity_mf * (IF (Nhidden \div 4) % 2 = 0 THEN 1 ELSE -1)
    IN  [psi |-> MulFx(old_psi, rat) * parity,
         internal |-> IF return_internal
                      THEN << [new_internal(pfa_update(old_inv, u.update, u.old_loc, TRUE),
                                            at_set(occ_idx, u.old_loc, u.new_idx),
                                            old_psi, parity_mf)
                                  EXCEPT !.psi = MulFx(old_psi, rat) * parity] >>
                      ELSE << >>]

\* lines 575-588 of _low_rank_update, rat being the ratio of the full
\* Pfaffians
low_rank_result(u, rat, occ_idx, old_inv, old_psi, return_internal) ==
    LET parity_mf == _parity_pfa(u.new_idx, u.old_idx, occ_idx)
        parity == parity_mf * (IF (Nhidden \div 4) % 2 = 0 THEN 1 ELSE -1)
    IN  [psi |-> MulFx(old_psi, rat) * parity,
         internal |-> IF return_internal
                      THEN << new_internal(pfa_update(old_inv, u.update, u.old_loc, TRUE),
                                           at_set(occ_idx, u.old_loc, u.new_idx),
                                           old_psi, parity_mf) >>
                      ELSE << >>]

\* lines 543-574, then the rest
low_rank_from(u, nflips, occ_idx, old_inv, old_psi, pairing, return_internal) ==
    low_rank_result(u, full_rat(u, nflips, occ_idx, old_inv, pairing, F_hidden_full.re),
                    occ_idx, old_inv, old_psi, return_internal)

\* HiddenPfaffian._low_rank_update; the result is [psi, internal], internal
\* being << >> when return_internal is false and <<the new entry>> otherwise
_low_rank_update(s, s_old, nflips, occ_idx, old_inv, old_psi, pairing, return_internal) ==
    low_rank_from(mf_update(s, s_old, nflips, occ_idx, F_full.re),
                  nflips, occ_idx, old_inv, old_psi, pairing, return_internal)

\* _get_sublattice_spins(s, None, None) = s[..., None, :]
get_sublattice_spins(s) == Tab([k \in 0 .. 0 |-> s])

\* _jastrow_sub_symmetrize(x_full, x_sub, s, None, None) = x_full * x_sub[0]
sub_symmetrize(x_full, x_sub, s) == Tab([n \in DOMAIN x_full |-> MulFx(x_full[n], x_sub[0])])

RECURSIVE ExpSeries(_, _, _)
\* term + term a / k + term a^2 / (k (k + 1)) + ..., until the terms vanish
ExpSeries(a, term, k) ==
    IF term = 0 THEN 0
    ELSE term + ExpSeries(a, DivFx(MulFx(term, a), Fx(k)), k + 1)

\* nn.Exp: the exponential of every entry
exp_layer(v) == Tab([n \in DOMAIN v |-> ExpSeries(v[n], Fx(1), 1)])

\* the pairing net: an array of 2 Nhidden rows and 2 N columns for each
\* configuration, with entries -1/2, 0 and 1/2
pairing_net(s) ==
    Tab([r \in 0 .. 2 * Nhidden - 1 |-> Tab([m \in Modes |->
        Fx(((s[m] * (r + 1) + m + 1) % 3) - 1) \div 2])])

\* lines 294-300: pairing_and_jastrow(x)
pairing_and_jastrow(x) ==
    LET x_mf == Tab([h \in Hidden |-> x[h]])
        rows == Size(x) - Nhidden
        \* jastrow.reshape(-1, N) has two rows for each row of x[Nhidden:]
        mean == Tab([n \in Sites |->
                    DivFx(SumTo([q \in 0 .. rows - 1 |-> x[Nhidden + q][n] + x[Nhidden + q][N + n]], rows),
                          Fx(2 * rows))])
    IN  [x_mf |-> scale_layer(x_mf), jastrow |-> exp_layer(mean)]

\* the entries e of a vmap over the orbit axis, as the arrays of an internal
Stack(e) ==
    [idx |-> Tab([k \in DOMAIN e |-> e[k].idx]),
     inv |-> Tab([k \in DOMAIN e |-> e[k].inv]),
     psi |-> Tab([k \in DOMAIN e |-> e[k].psi])]

\* HiddenPfaffian.init_internal(s)
init_internal(s) ==
    Stack(Tab([k \in DOMAIN get_sublattice_spins(s) |-> _init_internal(get_sublattice_spins(s)[k])]))

\* what ref_forward_with_updates returns, r being what _low_rank_update
\* returned for each entry of the orbit axis
with_updates_result(jastrow, r, s) ==
    [psi |-> sub_symmetrize(jastrow, Tab([k \in DOMAIN r |-> r[k].psi]), s),
     internal |-> Stack(Tab([k \in DOMAIN r |-> r[k].internal[1]]))]

\* ref_forward_with_updates, pj being what pairing_and_jastrow returned
with_updates_from(pj, s, s_old, nflips, internal) ==
    with_updates_result(
        pj.jastrow,
        Tab([k \in DOMAIN get_sublattice_spins(s) |->
            _low_rank_update(get_sublattice_spins(s)[k], get_sublattice_spins(s_old)[k], nflips,
                             internal.idx[k], internal.inv[k], internal.psi[k], pj.x_mf, TRUE)]),
        s)

\* HiddenPfaffian.ref_forward_with_updates(s, s_old, nflips, internal)
ref_forward_with_updates(s, s_old, nflips, internal) ==
    with_updates_from(pairing_and_jastrow(pairing_net(s)), s, s_old, nflips, internal)

\* ref_forward, pj being what pairing_and_jastrow returned
ref_forward_from(pj, s, s_old, nflips, internal) ==
    sub_symmetrize(
        pj.jastrow,
        Tab([k \in DOMAIN get_sublattice_spins(s) |->
            _low_rank_update(get_sublattice_spins(s)[k], get_sublattice_spins(s_old)[k], nflips,
                             internal.idx[k], internal.inv[k], internal.psi[k], pj.x_mf, FALSE).psi]),
        s)

\* HiddenPfaffian.ref_forward(s, s_old, nflips, idx_segment, internal): s_old
\* and internal hold one entry for each sample
ref_forward(s, s_old, nflips, idx_segment, internal) ==
    ref_forward_from(pairing_and_jastrow(pairing_net(s)), s, s_old[idx_segment], nflips,
                     internal[idx_segment])

\* __call__, pj being what pairing_and_jastrow returned
call_from(pj, s) ==
    sub_symmetrize(
        pj.jastrow,
        Tab([k \in DOMAIN get_sublattice_spins(s) |->
            forward([re |-> pj.x_mf, im |-> pj.x_mf], get_sublattice_spins(s)[k])]),
        s)

\* _FullOrbsLayerPfaffian.__call__(x, s): the amplitude computed from scratch
call(x, s) == call_from(pairing_and_jastrow(x), s)

(***************************************************************************)
(* The incremental machine: a sampler holds two samples; the chain of      *)
(* sample 0 advances, and candidates are evaluated against either sample   *)
(***************************************************************************)
MaxSteps == 5

\* the parameters the chain runs with: F_full[r][c] is, before the scale,
\* ChainF at the position of (r, c) in the upper triangle
ChainF == <<3, -1, 2, 1, -2, 2, 1, -3, 1, -1, 2, 3, 1, -2, 2>>
ChainIndex == [r \in Modes |-> [c \in Modes |-> IF r < c THEN UpperIndex(2 * N, r, c) + 1 ELSE 0]]

Occupied(ms) == [m \in Modes |-> IF m \in ms THEN 1 ELSE -1]

\* the modes that are empty in s, ascending
Empty(s) == [k \in 0 .. 2 * N - Ntotal - 1 |-> Nth({m \in Modes : s[m] < 0}, k)]

\* s with the modes olds emptied and the modes news filled
Flip(s, olds, news) ==
    [m \in Modes |-> IF m \in olds THEN -1 ELSE IF m \in news THEN 1 ELSE s[m]]

\* the number of flips from s_old to s
Differ(s, s_old) == Cardinality({m \in Modes : s[m] # s_old[m]}) \div 2

\* the configurations the sampler proposes from s: a single flip and a
\* double flip
Moves(s) ==
    LET occ == _get_fermion_idx(s, Ntotal)
        emp == Empty(s)
    IN  { Flip(s, {occ[0]}, {emp[1]}),
          Flip(s, {occ[0], occ[2]}, {emp[0], emp[1]}) }

\* the calls of ref_forward_with_updates the sampler makes from s_old: the
\* moves with their number of flips, the call with s = s_old and nflips = 0,
\* and a call whose nflips is not the number of flips
AdvanceCalls(s_old) ==
    { [s |-> s, nflips |-> Differ(s, s_old)] : s \in Moves(s_old) }
        \cup { [s |-> s_old, nflips |-> 0] }
        \cup { [s |-> s, nflips |-> 0] :
                 s \in { Flip(s_old, {_get_fermion_idx(s_old, Ntotal)[1]}, {Empty(s_old)[0]}) } }

\* the candidates scored against sample k
EvaluateCalls(s_old, k) ==
    LET occ == _get_fermion_idx(s_old, Ntotal)
        emp == Empty(s_old)
    IN  IF k = 0 THEN { [s |-> Flip(s_old, {occ[1]}, {emp[0]}), nflips |-> 1],
                        [s |-> s_old, nflips |-> 0] }
        ELSE { [s |-> Flip(s_old, {occ[1], occ[2]}, {emp[0], emp[1]}), nflips |-> 2] }

\* the state of a call that has not been made
NoRet ==
    [op |-> "new", s |-> << >>, s_old |-> << >>, nflips |-> 0, segment |-> 0,
     psi |-> << >>, old |-> << >>, valid |-> TRUE, raised |-> FALSE]

ChainInit ==
    /\ pc = "idle" /\ A_in = NoCall /\ A = NoCall /\ pfaffian_val = NoCall /\ i = NoCall
    /\ F = [ndim |-> 1, data |-> [k \in 0 .. Len(ChainF) |-> IF k = 0 THEN 0 ELSE Fx(ChainF[k])]]
    /\ F_hidden = F_hidden_init(1)
    /\ index = ChainIndex
    /\ scale = scale_init
    /\ fwd = NoForward
    /\ samples = [k \in 0 .. 1 |-> IF k = 0 THEN Occupied({0, 1, 2, 3}) ELSE Occupied({0, 2, 3, 5})]
    /\ cache = << >>
    /\ ret = NoRet
    /\ nsteps = 0
    /\ NoSym
    /\ NoAux

\* the sampler calls init_internal for its samples
ChainInitInternal ==
    /\ ret.op = "new"
    /\ cache' = Tab([k \in DOMAIN samples |-> init_internal(samples[k])])
    /\ ret' = [NoRet EXCEPT !.op = "init"]
    /\ UNCHANGED <<pfvars, layervars, orbvars, samples, nsteps, symvars, auxvars>>

\* an advance that counts the modes that differ first, and raises when the
\* count is not nflips
ChainAdvance_validating ==
    /\ ret.op # "new"
    /\ ret.valid
    /\ \E c \in AdvanceCalls(samples[0]) :
          \E moved \in {c.s # samples[0]} :
              IF Differ(c.s, samples[0]) # c.nflips
              THEN /\ ret' = [op |-> "advance", s |-> c.s, s_old |-> samples[0],
                              nflips |-> c.nflips, segment |-> 0, psi |-> << >>, old |-> cache[0],
                              valid |-> FALSE, raised |-> TRUE]
                   /\ UNCHANGED <<samples, cache, nsteps>>
              ELSE /\ moved => nsteps < MaxSteps
                   /\ nsteps' = IF moved THEN nsteps + 1 ELSE nsteps
                   /\ \E r \in {ref_forward_with_updates(c.s, samples[0], c.nflips, cache[0])} :
                         /\ samples' = [samples EXCEPT ![0] = c.s]
                         /\ cache' = [cache EXCEPT ![0] = r.internal]
                         /\ ret' = [op |-> "advance", s |-> c.s, s_old |-> samples[0],
                                    nflips |-> c.nflips, segment |-> 0, psi |-> r.psi,
                                    old |-> cache[0], valid |-> TRUE, raised |-> FALSE]
    /\ UNCHANGED <<pfvars, layervars, orbvars, symvars, auxvars>>

\* the sampler calls ref_forward_with_updates for sample 0 and keeps what it
\* returns; a chain whose call broke the precondition is not continued
ChainAdvance ==
    /\ ret.op # "new"
    /\ ret.valid
    /\ \E c \in AdvanceCalls(samples[0]) :
          \E moved \in {c.s # samples[0]} :
              /\ moved => nsteps < MaxSteps
              /\ nsteps' = IF moved THEN nsteps + 1 ELSE nsteps
              /\ \E r \in {ref_forward_with_updates(c.s, samples[0], c.nflips, cache[0])} :
                    /\ samples' = [samples EXCEPT ![0] = c.s]
                    /\ cache' = [cache EXCEPT ![0] = r.internal]
                    /\ ret' = [op |-> "advance", s |-> c.s, s_old |-> samples[0],
                               nflips |-> c.nflips, segment |-> 0, psi |-> r.psi, old |-> cache[0],
                               valid |-> (Differ(c.s, samples[0]) = c.nflips), raised |-> FALSE]
    /\ UNCHANGED <<pfvars, layervars, orbvars, symvars, auxvars>>

\* an evaluate that keeps the internal values of the candidate, as an advance
\* does
ChainEvaluate_with_updates ==
    /\ ret.op # "new"
    /\ ret.valid
    /\ \E idx_segment \in DOMAIN samples : \E c \in EvaluateCalls(samples[idx_segment], idx_segment) :
          \E r \in {ref_forward_with_updates(c.s, samples[idx_segment], c.nflips, cache[idx_segment])} :
              /\ cache' = [cache EXCEPT ![idx_segment] = r.internal]
              /\ ret' = [op |-> "evaluate", s |-> c.s, s_old |-> samples[idx_segment],
                         nflips |-> c.nflips, segment |-> idx_segment, psi |-> r.psi,
                         old |-> cache[idx_segment], valid |-> TRUE, raised |-> FALSE]
    /\ UNCHANGED <<pfvars, layervars, orbvars, samples, nsteps, symvars, auxvars>>

\* the sampler scores a candidate against the sample idx_segment
ChainEvaluate ==
    /\ ret.op # "new"
    /\ ret.valid
    /\ \E idx_segment \in DOMAIN samples : \E c \in EvaluateCalls(samples[idx_segment], idx_segment) :
          ret' = [op |-> "evaluate", s |-> c.s, s_old |-> samples[idx_segment], nflips |-> c.nflips,
                  segment |-> idx_segment,
                  psi |-> ref_forward(c.s, samples, c.nflips, idx_segment, cache),
                  old |-> cache[idx_segment], valid |-> TRUE, raised |-> FALSE]
    /\ UNCHANGED <<pfvars, layervars, orbvars, samples, cache, nsteps, symvars, auxvars>>

ChainNext == ChainInitInternal \/ ChainAdvance \/ ChainEvaluate

SpecChain == ChainInit /\ [][ChainNext]_vars

\* equality of two computed numbers along a chain: 2^8 units in the last
\* place, relative to the larger of 1 and the two magnitudes
Near(a, b) == Abs(a - b) <= (SC + Max(Abs(a), Abs(b))) \div 2 ^ (FracBits - 8)

NearMat(X, Y) == \A r \in DOMAIN X : \A c \in DOMAIN X[r] : Near(X[r][c], Y[r][c])

(***************************************************************************)
(* The properties of the incremental machine                               *)
(***************************************************************************)
\* the call the machine has just returned from is an advance that kept the
\* precondition
ValidAdvance == ret.op = "advance" /\ ret.valid

\* the Pfaffian of the occupied block of the configuration s, from scratch
ScratchPfaffian(s) == init_internal(s).psi[0]

\* the amplitude of the configuration s, from scratch
ScratchAmplitude(s) == call(pairing_net(s), s)

\* C1 (as the code has it): along every chain of advances that keep the
\* precondition, the cached baseline amplitude after an advance divided by the
\* cached baseline amplitude before it is the ratio of the Pfaffians of the
\* occupied blocks of the new and the old configuration computed from
\* scratch, sign included, and the amplitude the advance returns is, up to
\* the parity sign, the amplitude computed from scratch for the new
\* configuration: the jastrow factor times the Pfaffian of the orbital
\* matrix with its hidden block.
C1_AdvanceFollowsScratch ==
    ValidAdvance =>
        /\ Near(DivFx(cache[0].psi[0], ret.old.psi[0]),
                DivFx(ScratchPfaffian(ret.s), ScratchPfaffian(ret.s_old)))
        /\ \A n \in DOMAIN ret.psi : Near(Abs(ret.psi[n]), Abs(ScratchAmplitude(ret.s)[n]))

\* a chain of five advances that moved, the last one a double flip
C1_Witness == ValidAdvance /\ nsteps >= 5 /\ ret.nflips = 2

\* C1 (as the specification states it): the amplitude an advance returns
\* divided by the cached baseline amplitude of the prior state is, up to the
\* sign, the ratio of the Pfaffians of the occupied blocks of the new and the
\* old configuration computed from scratch.
C1_ReturnedOverBaseline ==
    (ValidAdvance /\ ret.nflips > 0) =>
        \A n \in DOMAIN ret.psi :
            Near(Abs(DivFx(ret.psi[n], ret.old.psi[0])),
                 Abs(DivFx(ScratchPfaffian(ret.s), ScratchPfaffian(ret.s_old))))

\* the call the machine has just returned from is an advance with nflips = 0
\* and the new configuration equal to the old one
ZeroFlipAdvance == ValidAdvance /\ ret.nflips = 0 /\ ret.s = ret.s_old

\* C5 (as the code has it): an advance with nflips = 0 and the new
\* configuration equal to the old one returns the cache entry unchanged, the
\* occupancy index, the inverse and the baseline amplitude (a ratio of 1),
\* and the amplitude it returns is, up to the parity sign, the amplitude of the
\* configuration computed from scratch.
C5_ZeroFlipKeepsEntry ==
    ZeroFlipAdvance =>
        /\ cache[0] = ret.old
        /\ \A n \in DOMAIN ret.psi : Near(Abs(ret.psi[n]), Abs(ScratchAmplitude(ret.s)[n]))

\* an advance with nflips = 0 after the chain has moved
C5_Witness == ZeroFlipAdvance /\ nsteps >= 1

\* C5 (as the specification states it): an advance with nflips = 0 returns
\* an amplitude equal to the prior cached amplitude.
C5_AmplitudeIsBaseline ==
    ZeroFlipAdvance => \A n \in DOMAIN ret.psi : Near(ret.psi[n], ret.old.psi[0])

\* idx is strictly ascending
Ascending(idx) == \A j, k \in DOMAIN idx : j < k => idx[j] < idx[k]

\* C6: after every advance the cached occupancy index is ascending, and the
\* cached inverse is the antisymmetrized inverse of the orbital matrix sliced
\* by that index, so its entry (j, k) refers to the modes idx[j] and idx[k].
C6_SortedIndexAndInverse ==
    ValidAdvance =>
        /\ Ascending(cache[0].idx[0])
        /\ NearMat(cache[0].inv[0],
                   HalfMinusTranspose(linalg_inv(Slice(F_full.re, cache[0].idx[0]))))

\* an advance that put a new mode in front of the modes that stayed, so that
\* the sort had to move it
C6_Witness ==
    /\ ValidAdvance
    /\ ret.nflips > 0
    /\ ~ Ascending(at_set(ret.old.idx[0],
                          _idx_to_canon(_get_changed_inds(
                              [m \in Modes |-> (ret.s[m] - ret.s_old[m]) \div 2],
                              ret.nflips, 2 * N).old_idx, ret.old.idx[0]),
                          _get_changed_inds(
                              [m \in Modes |-> (ret.s[m] - ret.s_old[m]) \div 2],
                              ret.nflips, 2 * N).new_idx))

\* C7: an evaluate returns an amplitude only: the step leaves the samples and
\* the cached internal values of every sample as they were, so the advance
\* that follows it starts from what the advance before it left.
C7_EvaluateReadOnly ==
    [][ret'.op = "evaluate" => (cache' = cache /\ samples' = samples /\ nsteps' = nsteps)]_vars

\* an evaluate of a candidate that differs from the sample it is scored
\* against, between two advances
C7_Witness ==
    /\ ret.op = "evaluate"
    /\ ret.nflips > 0
    /\ ret.psi # << >>
    /\ nsteps >= 1
    /\ cache[ret.segment] = ret.old

\* the call the machine has just returned from is an advance whose nflips is
\* not the number of modes that differ
BrokenAdvance == ret.op = "advance" /\ Differ(ret.s, ret.s_old) # ret.nflips

\* C8 (as the code has it): an advance does not count the modes that differ;
\* a call with nflips = 0 for a new configuration that differs from the old
\* one is not rejected: it returns an amplitude and a cache entry, the prior
\* entry, whose occupancy index is not the occupancy of the new configuration.
C8_BrokenAdvanceReturns ==
    BrokenAdvance =>
        /\ ~ ret.raised
        /\ DOMAIN ret.psi = Sites
        /\ cache[0] = ret.old
        /\ cache[0].idx[0] # _get_fermion_idx(ret.s, Ntotal)

\* an advance with nflips = 0 for a configuration with one flip
C8_Witness == BrokenAdvance /\ ret.nflips = 0 /\ ret.s # ret.s_old /\ samples[0] = ret.s

\* C8 (as the specification states it): a call where the number of modes
\* that differ is not nflips is rejected.
C8_BrokenAdvanceRejected == BrokenAdvance => ret.raised

(***************************************************************************)
(* model/neural_fermion.py: the symmetry projection, _to_sub_term,         *)
(* _get_sublattice_spins, _sub_symmetrize                                  *)
(*                                                                         *)
(* The lattice has the extents SymShape, one site for each cell and two    *)
(* spin species, so a configuration has 2 * (number of cells) states.  The *)
(* group is the group of the translations of the lattice; its element      *)
(* g = tx * SymShape[2] + ty translates by (tx, ty).                       *)
(***************************************************************************)
\* get_lattice().shape[1:]
SymShape == <<2, 2>>

RECURSIVE Prod(_, _)
\* shape[from] * ... * shape[Len(shape)]
Prod(shape, from) == IF from > Len(shape) THEN 1 ELSE shape[from] * Prod(shape, from + 1)

\* the coordinate along axis of the flat index g of an array of that shape
\* (row-major, as reshape has it)
Coord(g, shape, axis) == (g \div Prod(shape, axis + 1)) % shape[axis]

SymCells == 0 .. Prod(SymShape, 1) - 1
SymStates == 0 .. 2 * Prod(SymShape, 1) - 1

\* the cell that the translation g takes the cell c from
TranslateCell(g, c) ==
    ((Coord(c, SymShape, 1) + Coord(g, SymShape, 1)) % SymShape[1]) * SymShape[2]
        + ((Coord(c, SymShape, 2) + Coord(g, SymShape, 2)) % SymShape[2])

\* the Symmetry of the translations in the sector (kx, ky) of the momenta 0
\* and pi: the permutation table, the characters, the signs of the states
\* and the sizes
TransSymm(kx, ky, is_fermion) ==
    [present |-> TRUE,
     _perm |-> [g \in SymCells |-> [m \in SymStates |->
                   (m \div Prod(SymShape, 1)) * Prod(SymShape, 1)
                       + TranslateCell(g, m % Prod(SymShape, 1))]],
     _eigval |-> [g \in SymCells |->
                     IF (kx * Coord(g, SymShape, 1) + ky * Coord(g, SymShape, 2)) % 2 = 0
                     THEN Fx(1) ELSE - Fx(1)],
     _perm_sign |-> [g \in SymCells |-> [m \in SymStates |-> 1]],
     nsymm |-> Prod(SymShape, 1),
     nstates |-> 2 * Prod(SymShape, 1),
     is_fermion |-> is_fermion]

\* the first entries of x, as many as the sublattice has terms
to_sub_term_leading(x, subl) == Tab([k \in 0 .. Prod(subl, 1) - 1 |-> x[k]])

\* _to_sub_term(x, sublattice): x, reshaped to the lattice, keeps along every
\* axis the first sublattice[axis] entries, and is flattened again
_to_sub_term(x, subl) ==
    Tab([k \in 0 .. Prod(subl, 1) - 1 |->
        x[Nth({g \in DOMAIN x : \A axis \in DOMAIN subl : Coord(g, SymShape, axis) < subl[axis]}, k)]])

\* _get_sublattice_spins(s, trans_symm, sublattice): s[:, perm], every block
\* of nstates entries of s permuted on its own
_get_sublattice_spins(s, ts, subl) ==
    IF ~ ts.present THEN Tab([k \in 0 .. 0 |-> s])
    ELSE LET perm == _to_sub_term(ts._perm, subl)
         IN  Tab([k \in DOMAIN perm |-> Tab([j \in DOMAIN s |->
                 s[(j \div ts.nstates) * ts.nstates + perm[k][j % ts.nstates]]])])

\* the parity of the permutation p restricted to the occupied states of s:
\* of the order in which the states that p brings to the occupied places
\* come from
RestrictedParity(s, p) ==
    IF Cardinality({jk \in (DOMAIN p) \X (DOMAIN p) :
                       /\ jk[1] < jk[2]
                       /\ s[p[jk[1]]] > 0 /\ s[p[jk[2]]] > 0
                       /\ p[jk[1]] > p[jk[2]]}) % 2 = 0
    THEN 1 ELSE -1

\* symmetry._permutation_sign(s, perm, perm_sign): for every group element
\* the parity of its permutation restricted to the occupied states, times
\* the signs the element gives the occupied states
_permutation_sign(s, perm, perm_sign) ==
    Tab([k \in DOMAIN perm |->
        RestrictedParity(s, perm[k])
            * (IF Cardinality({m \in DOMAIN s : s[m] > 0 /\ perm_sign[k][m] < 0}) % 2 = 0
               THEN 1 ELSE -1)])

\* lines 57-66 of _sub_symmetrize: the weights eigval and the sum
sub_symmetrize_dot(x_sub, eigval0, sign, is_fermion) ==
    SumTo([k \in DOMAIN x_sub |->
              MulFx(x_sub[k], IF is_fermion THEN eigval0[k] * sign[k] ELSE eigval0[k])],
          Size(x_sub))

\* weights that are not divided by nsymm
sub_term_eigval_unnormalized(ts, subl) == _to_sub_term(ts._eigval, subl)

\* line 57 of _sub_symmetrize: _to_sub_term(trans_symm._eigval, sublattice) /
\* trans_symm.nsymm
sub_term_eigval(ts, subl) ==
    Tab([k \in 0 .. Prod(subl, 1) - 1 |->
        DivFx(_to_sub_term(ts._eigval, subl)[k], Fx(ts.nsymm))])

\* _sub_symmetrize(x_sub, s, trans_symm, sublattice)
_sub_symmetrize(x_sub, s, ts, subl) ==
    IF ~ ts.present THEN x_sub[0]
    ELSE sub_symmetrize_dot(
             x_sub,
             sub_term_eigval(ts, subl),
             _permutation_sign(s, _to_sub_term(ts._perm, subl),
                               _to_sub_term(ts._perm_sign, subl)),
             ts.is_fermion)

\* lines 81-83 of _jastrow_sub_symmetrize for one axis: x, an array of the
\* given shape (flat, row-major), is reshaped so that the axis splits into
\* (-1, subl), and the mean over the new axis is taken; the result has the
\* shape with subl at the axis
MeanOverCopies(x, shape, axis, subl) ==
    LET newshape == [shape EXCEPT ![axis] = subl]
        copies == shape[axis] \div subl
        stride == Prod(shape, axis + 1)
    IN  Tab([k \in 0 .. Prod(newshape, 1) - 1 |->
            DivFx(SumTo([q \in 0 .. copies - 1 |->
                            x[(k \div (subl * stride)) * (shape[axis] * stride)
                                  + (q * subl + Coord(k, newshape, axis)) * stride
                                  + (k % stride)]],
                        copies),
                  Fx(copies))])

RECURSIVE MeanOverAxes(_, _, _, _)
\* the loop of lines 80-83 from the given axis on
MeanOverAxes(x, shape, axis, subl) ==
    IF axis > Len(subl) THEN x
    ELSE MeanOverAxes(MeanOverCopies(x, shape, axis, subl[axis]),
                      [shape EXCEPT ![axis] = subl[axis]], axis + 1, subl)

\* a pooled projection that forgets the factor x_full
jastrow_sub_symmetrize_plain(x_full, x_sub, s, ts, subl) ==
    IF ~ ts.present THEN Tab([n \in DOMAIN x_full |-> x_sub[0]])
    ELSE _sub_symmetrize(x_sub, s, ts, subl)

\* _jastrow_sub_symmetrize(x_full, x_sub, s, trans_symm, sublattice)
_jastrow_sub_symmetrize(x_full, x_sub, s, ts, subl) ==
    IF ~ ts.present THEN Tab([n \in DOMAIN x_full |-> MulFx(x_full[n], x_sub[0])])
    ELSE _sub_symmetrize(
             Tab([k \in DOMAIN x_sub |-> MulFx(MeanOverAxes(x_full, SymShape, 1, subl)[k], x_sub[k])]),
             s, ts, subl)

(***************************************************************************)
(* The projection machine: a layer with a symmetry and a sublattice        *)
(* enumerates the orbit of a configuration, then projects the amplitudes   *)
(* of the orbit                                                            *)
(***************************************************************************)
\* the sublattices of the lattice
Sublattices == {<<1, 1>>, <<1, 2>>, <<2, 1>>, <<2, 2>>}

\* the configurations: half of the states are occupied
SymConfigs ==
    { s \in [SymStates -> {-1, 1}] :
        2 * Cardinality({m \in SymStates : s[m] > 0}) = Cardinality(SymStates) }

\* the amplitudes of an orbit of n members
Amplitudes(n) ==
    { [k \in 0 .. n - 1 |-> Fx(k + 1)],
      [k \in 0 .. n - 1 |-> Fx(2 - k)],
      [k \in 0 .. n - 1 |-> (IF k % 2 = 0 THEN 3 ELSE -5) * (SC \div 2)],
      [k \in 0 .. n - 1 |-> 3 * (SC \div 2)] }

SymInit ==
    /\ pc = "idle" /\ A_in = NoCall /\ A = NoCall /\ pfaffian_val = NoCall /\ i = NoCall
    /\ F = NoCall /\ F_hidden = NoCall /\ index = NoCall /\ scale = NoCall
    /\ fwd = NoForward
    /\ NoChain
    /\ \/ trans_symm = NoSymmetry /\ sublattice = << >>
       \/ /\ trans_symm \in { TransSymm(kx, ky, f) : kx \in 0 .. 1, ky \in 0 .. 1, f \in BOOLEAN }
          /\ sublattice \in Sublattices
    /\ proj = NoProj
    /\ NoAux

\* get_sublattice_spins(s)
SymOrbit ==
    /\ proj.op = "idle"
    /\ \E s \in SymConfigs :
          proj' = [op |-> "orbit", s |-> s, x_full |-> << >>, x_sub |-> << >>,
                   s_symm |-> _get_sublattice_spins(s, trans_symm, sublattice), psi |-> 0]
    /\ UNCHANGED <<pfvars, layervars, orbvars, chainvars, trans_symm, sublattice, auxvars>>

\* sub_symmetrize of the amplitudes of the orbit
SymProject ==
    /\ proj.op = "orbit"
    /\ \E x_sub \in Amplitudes(Size(proj.s_symm)) :
          proj' = [proj EXCEPT !.op = "project", !.x_sub = x_sub,
                               !.psi = _sub_symmetrize(x_sub, proj.s, trans_symm, sublattice)]
    /\ UNCHANGED <<pfvars, layervars, orbvars, chainvars, trans_symm, sublattice, auxvars>>

\* the values of the network on the cells of the lattice
Pooled ==
    { [c \in SymCells |-> Fx(c + 2) \div 2], [c \in SymCells |-> Fx(1) - Fx(c) \div 4] }

\* sub_symmetrize of a layer with a network: _jastrow_sub_symmetrize
SymPooled ==
    /\ proj.op = "orbit"
    /\ \E x_sub \in Amplitudes(Size(proj.s_symm)) : \E x_full \in Pooled :
          proj' = [proj EXCEPT !.op = "pooled", !.x_sub = x_sub, !.x_full = x_full,
                               !.psi = _jastrow_sub_symmetrize(x_full, x_sub, proj.s,
                                                               trans_symm, sublattice)]
    /\ UNCHANGED <<pfvars, layervars, orbvars, chainvars, trans_symm, sublattice, auxvars>>

SymReturn ==
    /\ proj.op \in {"project", "pooled"}
    /\ proj' = NoProj
    /\ UNCHANGED <<pfvars, layervars, orbvars, chainvars, trans_symm, sublattice, auxvars>>

SymNext == SymOrbit \/ SymProject \/ SymPooled \/ SymReturn

SpecSym == SymInit /\ [][SymNext]_vars

(***************************************************************************)
(* The properties of the projection machine                                *)
(***************************************************************************)
\* the group element of the k-th term of the sublattice: the translation by
\* (tx, ty) with k = tx * sublattice[2] + ty
SubElement(k) == (k \div sublattice[2]) * SymShape[2] + (k % sublattice[2])

\* the machine has just projected with a fermionic symmetry
FermionProject == proj.op = "project" /\ trans_symm.present /\ trans_symm.is_fermion

\* C10: with a fermionic symmetry and a sublattice, the k-th member of the
\* orbit is the configuration permuted by the k-th group element of the
\* sublattice, there is one amplitude for each member, and the projection is
\* the sum over the members k of amplitude[k] * eigenvalue[k] / nsymm *
\* fermionSign[k], the eigenvalue and the sign being those of that same
\* group element and the sign the parity of its permutation restricted to
\* the occupied states.
C10_ProjectIsWeightedSum ==
    FermionProject =>
        /\ DOMAIN proj.s_symm = 0 .. Prod(sublattice, 1) - 1
        /\ DOMAIN proj.x_sub = DOMAIN proj.s_symm
        /\ \A k \in DOMAIN proj.s_symm :
              proj.s_symm[k] = [m \in SymStates |-> proj.s[trans_symm._perm[SubElement(k)][m]]]
        /\ proj.psi =
              SumTo([k \in DOMAIN proj.x_sub |->
                        MulFx(proj.x_sub[k],
                              DivFx(trans_symm._eigval[SubElement(k)], Fx(trans_symm.nsymm))
                                  * RestrictedParity(proj.s, trans_symm._perm[SubElement(k)]))],
                    Size(proj.x_sub))

\* a projection over a sublattice that leaves group elements out and keeps
\* one that is not among the first, with a member of odd parity and a
\* member of even parity, and an eigenvalue -1
C10_Witness ==
    /\ FermionProject
    /\ sublattice = <<2, 1>>
    /\ \E k \in DOMAIN proj.s_symm :
          RestrictedParity(proj.s, trans_symm._perm[SubElement(k)]) = -1
    /\ \E k \in DOMAIN proj.s_symm : trans_symm._eigval[SubElement(k)] = - Fx(1)
    /\ proj.s_symm[1] # proj.s
    /\ proj.psi # 0

\* the machine has just returned from a call without a symmetry
NoSymmetryCall == proj.op # "idle" /\ ~ trans_symm.present

\* C11 (as the code has it): with trans_symm = None the orbit of a
\* configuration has exactly one member, the configuration itself, and the
\* plain projection returns that member's amplitude unchanged as a single
\* scalar; the pooled projection does not: it returns the amplitude
\* multiplied by every entry of the network's values x_full, one product for
\* each entry.
C11_NoSymmetryPassThrough ==
    NoSymmetryCall =>
        /\ DOMAIN proj.s_symm = {0}
        /\ proj.s_symm[0] = proj.s
        /\ proj.op = "project" => proj.psi = proj.x_sub[0]
        /\ proj.op = "pooled" =>
              proj.psi = [n \in DOMAIN proj.x_full |-> MulFx(proj.x_full[n], proj.x_sub[0])]

\* a pooled projection without a symmetry, of an amplitude that is not 0
C11_Witness == NoSymmetryCall /\ proj.op = "pooled" /\ proj.x_sub[0] # 0

\* C11 (as the specification states it): with trans_symm = None the pooled
\* projection returns the member's amplitude unchanged.
C11_PooledPassThrough ==
    (NoSymmetryCall /\ proj.op = "pooled") =>
        \A n \in DOMAIN proj.psi : proj.psi[n] = proj.x_sub[0]

\* the machine has just projected amplitudes that are all equal, with a
\* symmetry that is not fermionic and has the trivial character
TrivialProject ==
    /\ proj.op = "project"
    /\ trans_symm.present
    /\ ~ trans_symm.is_fermion
    /\ \A g \in SymCells : trans_symm._eigval[g] = Fx(1)
    /\ \A k \in DOMAIN proj.x_sub : proj.x_sub[k] = proj.x_sub[0]

\* the sum of the weights that the projection applies
WeightSum == SumTo(sub_term_eigval(trans_symm, sublattice), Prod(sublattice, 1))

\* the number of terms of the sublattice over nsymm
SubFraction == DivFx(Fx(Prod(sublattice, 1)), Fx(trans_symm.nsymm))

\* C12 (as the code has it): with the trivial character the weights
\* eigenvalue / nsymm of the terms of the sublattice sum to the number of
\* terms over nsymm, so projecting amplitudes all equal to c returns c times
\* that fraction; the sum is 1, the projection returns c and projecting the
\* result again returns it again, only when the sublattice is the whole
\* lattice.
C12_WeightsSumToFraction ==
    TrivialProject =>
        /\ WeightSum = SubFraction
        /\ proj.psi = MulFx(proj.x_sub[0], SubFraction)
        /\ (WeightSum = Fx(1)) <=> (sublattice = SymShape)
        /\ sublattice = SymShape =>
              /\ proj.psi = proj.x_sub[0]
              /\ _sub_symmetrize([k \in DOMAIN proj.x_sub |-> proj.psi], proj.s,
                                 trans_symm, sublattice) = proj.psi

\* a projection of equal amplitudes over a sublattice that is not the whole
\* lattice
C12_Witness == TrivialProject /\ sublattice = <<2, 1>> /\ proj.psi # proj.x_sub[0]

\* C12 (as the specification states it): for every sublattice the weights
\* sum to 1 when all eigenvalues are 1, and projecting amplitudes all equal
\* to c returns c.
C12_WeightsSumToOne ==
    TrivialProject => (WeightSum = Fx(1) /\ proj.psi = proj.x_sub[0])

(***************************************************************************)
(* utils/linalg.py: the reverse-mode rule of pfaffian (custom_vjp)         *)
(***************************************************************************)
\* a * M, elementwise
ScaleMat(a, M) == Tab([r \in DOMAIN M |-> Tab([c \in DOMAIN M[r] |-> MulFx(a, M[r][c])])])

\* line 78: return pfaA, pfaA * Ainv
_pfa_fwd_out(pfaA, Ainv) == [pfaA |-> pfaA, res |-> ScaleMat(pfaA, Ainv)]

\* lines 75-78
_pfa_fwd(M) == _pfa_fwd_out(pfaffian(M), linalg_inv(M))

\* a backward pass that returns g * res / 2
pfa_bwd_no_sign(res, g) ==
    Tab([r \in DOMAIN res |-> Tab([c \in DOMAIN res[r] |->
        DivFx(MulFx(g, res[r][c]), Fx(2))])])

\* lines 81-82: return (-g * res / 2,)
_pfa_bwd(res, g) ==
    Tab([r \in DOMAIN res |-> Tab([c \in DOMAIN res[r] |->
        DivFx(MulFx(- g, res[r][c]), Fx(2))])])

\* the invertible skew-symmetric matrices of size 2, and of size 4 with
\* A[2][3] = 1, with entries in Entries, and the matrix of the documented
\* scenario
GradInputs ==
    { M \in SkewAll(2) \cup SkewAll(4) \cup {SpecMatrix} :
        IF Size(M) = 2 THEN M[0][1] # 0
        ELSE Pf4(M) # 0 /\ (M[2][3] = Fx(1) \/ M = SpecMatrix) }

\* the cotangents g passed to the backward pass
Cotangents == {Fx(1), - ((3 * SC) \div 2)}

GradInit ==
    /\ pc = "idle" /\ A_in = NoCall /\ A = NoCall /\ pfaffian_val = NoCall /\ i = NoCall
    /\ F = NoCall /\ F_hidden = NoCall /\ index = NoCall /\ scale = NoCall
    /\ fwd = NoForward
    /\ NoChain
    /\ NoSym
    /\ \E M \in GradInputs :
          vjp = [op |-> "idle", A |-> M, pfaA |-> 0, res |-> << >>, g |-> 0, grad |-> << >>]
    /\ batch = NoOp /\ built = NoOp

\* the forward pass of jax.vjp(pfaffian, A): _pfa_fwd(A)
GradForward ==
    /\ vjp.op = "idle"
    /\ \E out \in {_pfa_fwd(vjp.A)} :
          vjp' = [vjp EXCEPT !.op = "fwd", !.pfaA = out.pfaA, !.res = out.res]
    /\ UNCHANGED <<pfvars, layervars, orbvars, chainvars, symvars, batch, built>>

\* the backward pass with the cotangent g: _pfa_bwd(res, g)
GradBackward ==
    /\ vjp.op = "fwd"
    /\ \E g \in Cotangents :
          vjp' = [vjp EXCEPT !.op = "bwd", !.g = g, !.grad = _pfa_bwd(vjp.res, g)]
    /\ UNCHANGED <<pfvars, layervars, orbvars, chainvars, symvars, batch, built>>

GradNext == GradForward \/ GradBackward

SpecGrad == GradInit /\ [][GradNext]_vars

\* M with 1 added to M[r][c] and subtracted from M[c][r]
Perturb(M, r, c) ==
    Tab([a \in DOMAIN M |-> Tab([b \in DOMAIN M |->
        IF a = r /\ b = c THEN M[a][b] + Fx(1)
        ELSE IF a = c /\ b = r THEN M[a][b] - Fx(1)
        ELSE M[a][b]])])

\* pf * Identity
ScaledIdentity(n, a) == [r \in 0 .. n - 1 |-> [c \in 0 .. n - 1 |-> IF r = c THEN a ELSE 0]]

CloseMat(X, Y) == \A r \in DOMAIN X : \A c \in DOMAIN X[r] : Close(X[r][c], Y[r][c])

\* g * pf * (1/2) * (A^-1)^T
HalfInverseTranspose(g, pfaA, Ainv) ==
    Tab([r \in DOMAIN Ainv |-> Tab([c \in DOMAIN Ainv |->
        DivFx(MulFx(MulFx(g, pfaA), Ainv[c][r]), Fx(2))])])

\* C13: For every invertible antisymmetric A, the forward pass saves the
\* residual pf(A) * A^-1 (its product with A is pf(A) times the identity), and
\* the backward pass returns - g * residual / 2, which equals
\* g * pf(A) * (1/2) * (A^-1)^T and is the derivative of pf: pf is linear in
\* each entry above the diagonal, so adding 1 to A[r][c] and subtracting it
\* from A[c][r] changes g * pf(A) by grad[r][c] - grad[c][r].
C13_BackwardIsHalfInverseTranspose ==
    vjp.op = "bwd" =>
        /\ CloseMat(MatMul(vjp.res, vjp.A), ScaledIdentity(Size(vjp.A), vjp.pfaA))
        /\ CloseMat(vjp.grad, HalfInverseTranspose(vjp.g, vjp.pfaA, linalg_inv(vjp.A)))
        /\ \A r \in DOMAIN vjp.A : \A c \in DOMAIN vjp.A :
              r < c =>
                  Close(MulFx(vjp.g, pfaffian(Perturb(vjp.A, r, c)) - vjp.pfaA),
                        vjp.grad[r][c] - vjp.grad[c][r])

C13_Witness ==
    /\ vjp.op = "bwd"
    /\ Size(vjp.A) = 4 /\ vjp.A # SpecMatrix
    /\ vjp.g # Fx(1)
    /\ Abs(vjp.pfaA) > Fx(1)
    /\ \A r \in DOMAIN vjp.A : \A c \in DOMAIN vjp.A : r # c => vjp.grad[r][c] # 0

(***************************************************************************)
(* sampler/status.py: Samples                                              *)
(*                                                                         *)
(* A Samples object is a record [spins, wave_function, reweight_factor] of *)
(* arrays of one length.  The argument reweight is a record: a number n,   *)
(* [number |-> TRUE, value |-> <<n>>], or an array a,                      *)
(* [number |-> FALSE, value |-> a].  to_global_array places an array on    *)
(* the devices and leaves its values alone.                                *)
(***************************************************************************)
MaxSamples == 3

RECURSIVE PowFx(_, _)
\* x ** e for x >= 0 and an exponent e >= 0 that is a multiple of 1/2.  Any
\* other exponent reaches it only from a batch of one sample (a factor read
\* as an exponent), where the power cancels in x / mean(x); the value is then
\* some positive number, as x ** e is
PowFx(x, e) ==
    IF e <= 0 THEN Fx(1)
    ELSE IF e >= SC THEN MulFx(x, PowFx(x, e - SC))
    ELSE SqrtFx(x)

\* jnp.mean(x)
Mean(x) == DivFx(SumTo(x, Size(x)), Fx(Size(x)))

\* line 106: jnp.abs(self.wave_function) ** (2 - reweight), reweight a number or
\* an array of one element, broadcast over the samples
reweight_power(wave_function, n) ==
    Tab([k \in DOMAIN wave_function |-> PowFx(Abs(wave_function[k]), Fx(2) - n)])

\* lines 105-109: the reweight_factor __init__ stores
reweight_factor_init(wave_function, reweight) ==
    IF reweight.number \/ Size(reweight.value) = 1
    THEN DivVec(reweight_power(wave_function, reweight.value[0]),
                Mean(reweight_power(wave_function, reweight.value[0])))
    ELSE reweight.value

\* lines 86-109: Samples(spins, wave_function, reweight)
Samples(spins, wave_function, reweight) ==
    [spins |-> spins, wave_function |-> wave_function,
     reweight_factor |-> reweight_factor_init(wave_function, reweight)]

\* a[idx], idx an array of positions
Take(a, idx) == Tab([k \in DOMAIN idx |-> a[idx[k]]])

\* lines 124-127: self[idx]
__getitem__(self, idx) ==
    Samples(Take(self.spins, idx), Take(self.wave_function, idx),
            [number |-> FALSE, value |-> Take(self.reweight_factor, idx)])

\* lines 111-113: nsamples
nsamples(self) == Size(self.spins)

\* the configuration of sample k: the binary digits of k as spins
SpinRow(k) == [m \in 0 .. 2 |-> IF (k \div 2 ^ m) % 2 = 0 THEN 1 ELSE -1]

\* amplitudes, exponents n and factors p/q of the batches constructed
WfValues == {Fx(1), - Fx(2), SC \div 2}
Exponents == {0, Fx(1), Fx(2)}
FactorValues == {SC \div 2, Fx(1), (3 * SC) \div 2}

ReweightArgs(n) ==
    { [number |-> TRUE, value |-> Tab([k \in 0 .. 0 |-> e])] : e \in Exponents }
        \cup { [number |-> FALSE, value |-> Tab(a)] : a \in [0 .. n - 1 -> FactorValues] }

\* the arrays of positions that select a nonempty part of n samples, in order
Selections(n) ==
    { Tab([k \in 0 .. Cardinality(S) - 1 |-> Nth(S, k)]) : S \in SUBSET (0 .. n - 1) \ {{}} }

SamplesInit ==
    /\ pc = "idle" /\ A_in = NoCall /\ A = NoCall /\ pfaffian_val = NoCall /\ i = NoCall
    /\ F = NoCall /\ F_hidden = NoCall /\ index = NoCall /\ scale = NoCall
    /\ fwd = NoForward
    /\ NoChain
    /\ NoSym
    /\ vjp = NoOp /\ built = NoOp
    /\ batch = NoOp

\* Samples(spins, wave_function, reweight)
SamplesNew ==
    /\ batch.op = "none"
    /\ \E n \in 1 .. MaxSamples : \E wf \in [0 .. n - 1 -> WfValues] :
          \E reweight \in ReweightArgs(n) :
              batch' = [op |-> "new", reweight |-> reweight, idx |-> << >>,
                        parent |-> NoOp,
                        obj |-> Samples(Tab([k \in 0 .. n - 1 |-> SpinRow(k)]), Tab(wf),
                                        reweight)]
    /\ UNCHANGED <<pfvars, layervars, orbvars, chainvars, symvars, vjp, built>>

\* samples[idx]
SamplesGetItem ==
    /\ batch.op \in {"new", "getitem"}
    /\ \E idx \in Selections(nsamples(batch.obj)) :
          batch' = [op |-> "getitem", reweight |-> batch.reweight, idx |-> idx,
                    parent |-> batch.obj, obj |-> __getitem__(batch.obj, idx)]
    /\ UNCHANGED <<pfvars, layervars, orbvars, chainvars, symvars, vjp, built>>

SamplesNext == SamplesNew \/ SamplesGetItem

SpecSamples == SamplesInit /\ [][SamplesNext]_vars

\* C14: Every Samples object constructed, from an exponent n or from an
\* explicit array, holds a reweight_factor whose mean over the batch is 1.
C14_MeanIsOne ==
    batch.op = "new" => Close(Mean(batch.obj.reweight_factor), Fx(1))

\* what holds of the constructor: the mean is 1 when reweight is a number or
\* an array of one element, and the array is stored as it is otherwise
C14_MeanIsOneFromExponent ==
    batch.op = "new" =>
        IF batch.reweight.number \/ Size(batch.reweight.value) = 1
        THEN Close(Mean(batch.obj.reweight_factor), Fx(1))
        ELSE batch.obj.reweight_factor = batch.reweight.value

C14_Witness ==
    /\ batch.op = "new"
    /\ ~ batch.reweight.number
    /\ nsamples(batch.obj) = 2
    /\ batch.obj.reweight_factor = [k \in 0 .. 1 |-> (3 * SC) \div 2]

\* the arrays of self[idx] are the entries at idx of the arrays of self
SelectsEntries(obj, parent, idx) ==
    /\ obj.spins = Take(parent.spins, idx)
    /\ obj.wave_function = Take(parent.wave_function, idx)
    /\ obj.reweight_factor = Take(parent.reweight_factor, idx)

\* C18: samples[idx] returns a Samples whose spins, wave_function and
\* reweight_factor are exactly the entries of the original selected by idx,
\* the factors neither renormalized nor read as an exponent, also when idx
\* selects exactly one entry.
C18_GetItemSelectsEntries ==
    batch.op = "getitem" => SelectsEntries(batch.obj, batch.parent, batch.idx)

\* what holds of __getitem__: a selection of two or more entries is exact; a
\* selection of one entry keeps spins and wave_function and has the factor
\* |wave_function| ** (2 - factor) / mean = 1
C18_GetItemOfSeveral ==
    batch.op = "getitem" =>
        IF Size(batch.idx) >= 2
        THEN SelectsEntries(batch.obj, batch.parent, batch.idx)
        ELSE /\ batch.obj.spins = Take(batch.parent.spins, batch.idx)
             /\ batch.obj.wave_function = Take(batch.parent.wave_function, batch.idx)
             /\ batch.obj.reweight_factor = [k \in 0 .. 0 |-> Fx(1)]

\* a selection of one entry whose factor in the original is not 1
C18_Witness ==
    /\ batch.op = "getitem"
    /\ Size(batch.idx) = 1
    /\ nsamples(batch.parent) = 3
    /\ batch.parent.reweight_factor[batch.idx[0]] = SC \div 2
    /\ batch.obj.reweight_factor[0] = Fx(1)

(***************************************************************************)
(* The constructors: HiddenPfaffian.__init__ (model/neural_fermion.py) and *)
(* Triangular_ResSum (model/triangular_nets.py)                            *)
(*                                                                         *)
(* An optional argument is None or Some(v).  A call returns                *)
(* [raised, model]: the exception raised ("none" when the call returns)    *)
(* and the object constructed (NoOp when it raises).  A pairing net is     *)
(* known by the size of its output, which is all _get_default_Nhidden      *)
(* reads.                                                                  *)
(***************************************************************************)
None == [given |-> FALSE]
Some(v) == [given |-> TRUE, v |-> v]

Raise(exception) == [raised |-> exception, model |-> NoOp]
Return(model) == [raised |-> "none", model |-> model]

\* sites.N on the lattice of shape SymShape
sites_N == Cardinality(SymCells)

\* lines 367-374: the size of the net's output over 4 * sites.N
_get_default_Nhidden(net) ==
    IF net.size % (4 * sites_N) = 0
    THEN Return(net.size \div (4 * sites_N))
    ELSE Raise("ValueError")

\* lines 224-233: the constant pairing of shape (2 * Nhidden, 2 * N)
_ConstantPairing(n) == [size |-> 2 * n * 2 * sites_N, constant |-> TRUE]

\* lines 407-412: self.sublattice
sublattice_init(ts, subl) ==
    IF ~ ts.given THEN None
    ELSE IF ~ subl.given THEN Some(SymShape)
    ELSE subl

\* lines 404-428, given the value of line 404's expression
HiddenPfaffian_build(net, default, ts, subl) ==
    IF default.raised # "none" THEN default
    ELSE Return([Nhidden |-> default.model, trans_symm |-> ts,
                 sublattice |-> sublattice_init(ts, subl), pairing_net |-> net])

\* lines 404-428: the constructor once pairing_net is known
HiddenPfaffian_with_net(net, Nh, ts, subl) ==
    HiddenPfaffian_build(net, IF ~ Nh.given THEN _get_default_Nhidden(net) ELSE Return(Nh.v),
                         ts, subl)

\* a constructor that tests Nhidden before sublattice
HiddenPfaffian_Nhidden_first(net_arg, Nh, ts, subl) ==
    IF ~ net_arg.given
    THEN IF ~ Nh.given THEN Raise("ValueError")
         ELSE IF subl.given THEN Raise("NotImplementedError")
         ELSE HiddenPfaffian_with_net(_ConstantPairing(Nh.v), Nh, ts, subl)
    ELSE HiddenPfaffian_with_net(net_arg.v, Nh, ts, subl)

\* lines 384-428: HiddenPfaffian(pairing_net, Nhidden, trans_symm, sublattice)
HiddenPfaffian(net_arg, Nh, ts, subl) ==
    IF ~ net_arg.given
    THEN IF subl.given THEN Raise("NotImplementedError")
         ELSE IF ~ Nh.given THEN Raise("ValueError")
         ELSE HiddenPfaffian_with_net(_ConstantPairing(Nh.v), Nh, ts, subl)
    ELSE HiddenPfaffian_with_net(net_arg.v, Nh, ts, subl)

TriangularLattices == {"Triangular", "TriangularB"}
ComplexDtypes == {"complex64", "complex128"}

\* triangular_nets.py 210-262: Triangular_ResSum(nblocks, channels, use_sinh,
\* trans_symm, dtype) on the lattice get_lattice() returns; the layers are
\* reshape, the blocks, scale, pair_cpl (when the default dtype is complex, not
\* modelled), the activation, ReshapeTo_TriangularB, ConvSymmetrize
Triangular_ResSum(lattice, nblocks, use_sinh, ts, dtype) ==
    IF lattice \notin TriangularLattices THEN Raise("ValueError")
    ELSE IF dtype \in ComplexDtypes THEN Raise("ValueError")
    ELSE Return([is_triangularB |-> lattice = "TriangularB",
                 nlayers |-> 1 + nblocks + 1 + 1 + (IF lattice = "TriangularB" THEN 1 ELSE 0) + 1,
                 activation |-> IF use_sinh THEN "SinhShift" ELSE "Exp",
                 trans_symm |-> ts, holomorphic |-> FALSE])

\* the arguments of the constructor calls
OutputSizes == {0, 2 * sites_N, 4 * sites_N, 4 * sites_N + 2, 6 * sites_N, 8 * sites_N}
PairingNets == {None} \cup { Some([size |-> k, constant |-> FALSE]) : k \in OutputSizes }
NhiddenArgs == {None, Some(2), Some(4)}
SymmetryArgs == {None, Some("trans_symm")}
SublatticeArgs == {None} \cup { Some(subl) : subl \in Sublattices }
Lattices == {"Triangular", "TriangularB", "Square", "Chain"}
Dtypes == {"float32", "float64", "complex64", "complex128"}

BuildInit ==
    /\ pc = "idle" /\ A_in = NoCall /\ A = NoCall /\ pfaffian_val = NoCall /\ i = NoCall
    /\ F = NoCall /\ F_hidden = NoCall /\ index = NoCall /\ scale = NoCall
    /\ fwd = NoForward
    /\ NoChain
    /\ NoSym
    /\ NoAux

\* HiddenPfaffian(pairing_net, Nhidden, trans_symm, sublattice)
BuildHiddenPfaffian ==
    /\ built.op = "none"
    /\ \E net_arg \in PairingNets : \E Nh \in NhiddenArgs :
          \E ts \in SymmetryArgs : \E subl \in SublatticeArgs :
              built' = [op |-> "HiddenPfaffian",
                        args |-> [pairing_net |-> net_arg, Nhidden |-> Nh,
                                  trans_symm |-> ts, sublattice |-> subl],
                        out |-> HiddenPfaffian(net_arg, Nh, ts, subl)]
    /\ UNCHANGED <<pfvars, layervars, orbvars, chainvars, symvars, vjp, batch>>

\* Triangular_ResSum(nblocks, channels, use_sinh, trans_symm, dtype)
BuildTriangularResSum ==
    /\ built.op = "none"
    /\ \E lattice \in Lattices : \E nblocks \in 1 .. 2 : \E use_sinh \in BOOLEAN :
          \E ts \in SymmetryArgs : \E dtype \in Dtypes :
              built' = [op |-> "Triangular_ResSum",
                        args |-> [lattice |-> lattice, nblocks |-> nblocks,
                                  use_sinh |-> use_sinh, trans_symm |-> ts, dtype |-> dtype],
                        out |-> Triangular_ResSum(lattice, nblocks, use_sinh, ts, dtype)]
    /\ UNCHANGED <<pfvars, layervars, orbvars, chainvars, symvars, vjp, batch>>

BuildNext == BuildHiddenPfaffian \/ BuildTriangularResSum

SpecBuild == BuildInit /\ [][BuildNext]_vars

\* the output size of args.pairing_net is not a multiple of 4 * sites.N
BadOutputSize(args) == args.pairing_net.given /\ args.pairing_net.v.size % (4 * sites_N) # 0

\* C15: A constructor call that raises produces no model object, and:
\* HiddenPfaffian without a pairing_net raises NotImplementedError when a
\* sublattice is given (also when Nhidden is missing too), and otherwise
\* ValueError when Nhidden is missing; with a pairing net whose output size is
\* not a multiple of 4 * N and no Nhidden it raises ValueError;
\* Triangular_ResSum raises ValueError on a lattice that is not triangular and
\* for a complex dtype.
C15_ConstructionErrors ==
    /\ built.op # "none" =>
          (built.out.raised # "none" => built.out.model = NoOp)
    /\ built.op = "HiddenPfaffian" =>
          /\ ~ built.args.pairing_net.given /\ built.args.sublattice.given
                => built.out.raised = "NotImplementedError"
          /\ ~ built.args.pairing_net.given /\ ~ built.args.sublattice.given
                /\ ~ built.args.Nhidden.given
                => built.out.raised = "ValueError"
          /\ BadOutputSize(built.args) /\ ~ built.args.Nhidden.given
                => built.out.raised = "ValueError"
    /\ built.op = "Triangular_ResSum" =>
          /\ built.args.lattice \notin TriangularLattices => built.out.raised = "ValueError"
          /\ built.args.dtype \in ComplexDtypes => built.out.raised = "ValueError"

C15_Witness ==
    /\ built.op = "HiddenPfaffian"
    /\ ~ built.args.pairing_net.given
    /\ built.args.sublattice.given
    /\ ~ built.args.Nhidden.given
    /\ built.out = Raise("NotImplementedError")

(***************************************************************************)
(* utils/linalg.py: the degenerate steps of pfaffian                       *)
(***************************************************************************)
\* every entry of column ii of M below row ii + 1 is zero: sigma = 0 in
\* _householder_n(M[:, ii], ii + 1)
Degenerate(M, ii) == \A r \in DOMAIN M : r > ii + 1 => M[r][ii] = 0

AllDegenerate(M) == \A ii \in 0 .. Size(M) - 3 : Degenerate(M, ii)

RECURSIVE PivotProduct(_, _)
\* M[0][1] * M[2][3] * ... * M[2k - 2][2k - 1]
PivotProduct(M, k) ==
    IF k = 0 THEN Fx(1) ELSE MulFx(PivotProduct(M, k - 1), M[2 * k - 2][2 * k - 1])

\* the Householder triple of a degenerate step: tau = 0, v = 0, alpha = x[n]
SkippedReflection(h, x_in, n) ==
    /\ h.tau = 0
    /\ \A k \in DOMAIN h.v : h.v[k] = 0
    /\ h.alpha = x_in[n]

\* a step of the loop that starts from a degenerate column
DegenerateStep == pc = "loop" /\ i < Size(A_in) - 2 /\ Degenerate(A, i)

\* C16: In a step i of pfaffian in which every entry of column i below row
\* i + 1 is zero, tau = 0 and the reflection vector is zero, the matrix is left
\* unchanged, and the running product is multiplied by -A[i+1][i] when i is
\* even and by 1 when i is odd; when every step is degenerate the result is
\* the product of the A[2k][2k+1], which is 0 when one of them is 0.
C16_DegenerateStepSkipsReflection ==
    /\ [](DegenerateStep => SkippedReflection(_householder_n(Column(A, i), i + 1),
                                              Column(A, i), i + 1))
    /\ [][DegenerateStep =>
            /\ A' = A
            /\ pfaffian_val' = IF i % 2 = 0 THEN MulFx(pfaffian_val, - A[i + 1][i])
                               ELSE pfaffian_val]_vars
    /\ [](pc = "ret" /\ Size(A_in) % 2 = 0 /\ AllDegenerate(A_in) =>
            /\ pfaffian_val = PivotProduct(A_in, Size(A_in) \div 2)
            /\ ((\E k \in 0 .. Size(A_in) \div 2 - 1 : A_in[2 * k][2 * k + 1] = 0)
                    => pfaffian_val = 0))

C16_Witness ==
    /\ pc = "ret" /\ Size(A_in) = 6 /\ i = 4
    /\ AllDegenerate(A_in)
    /\ A_in[0][1] # 0
    /\ pfaffian_val = PivotProduct(A_in, 3) /\ pfaffian_val # 0

(***************************************************************************)
(* The incremental machine: what the cache depends on                      *)
(***************************************************************************)
\* pairing tensors and hidden blocks other than the model's
AltPairings ==
    { Tab([h \in Hidden |-> Tab([m \in Modes |-> 0])]),
      Tab([h \in Hidden |-> Tab([m \in Modes |-> Fx(((h + m) % 3) - 1)])]) }
AltHidden ==
    { Tab([r \in Hidden |-> Tab([c \in Hidden |-> 0])]),
      Tab([r \in Hidden |-> Tab([c \in Hidden |->
          IF r < c THEN Fx(3) ELSE IF r > c THEN - Fx(3) ELSE 0])]) }

\* _low_rank_update for the entry e of the cache with the pairing tensor and
\* the hidden block given, u being what mf_update returns
AdvanceEntryWith(u, pairing, Fh, e, nflips) ==
    low_rank_result(u, full_rat(u, nflips, e.idx[0], e.inv[0], pairing, Fh),
                    e.idx[0], e.inv[0], e.psi[0], TRUE)

\* the pairing tensor the advance to s is called with
AdvancePairing(s) == pairing_and_jastrow(pairing_net(s)).x_mf

\* (-1) ** (Nhidden // 4)
HiddenSign == IF (Nhidden \div 4) % 2 = 0 THEN 1 ELSE -1

\* the three statements of C17 for the advance just made, u being what
\* mf_update returns for it
CacheIgnoresPairing(u) ==
    /\ \A p \in AltPairings : \A Fh \in AltHidden :
          cache[0] = Stack(Tab([k \in 0 .. 0 |->
                         AdvanceEntryWith(u, p, Fh, ret.old, ret.nflips).internal[1]]))
    /\ cache[0].psi[0]
          = MulFx(ret.old.psi[0], pfa_update(ret.old.inv[0], u.update, u.old_loc, FALSE).rat)
              * _parity_pfa(u.new_idx, u.old_idx, ret.old.idx[0])
    /\ ret.psi
          = sub_symmetrize(
                pairing_and_jastrow(pairing_net(ret.s)).jastrow,
                Tab([k \in 0 .. 0 |->
                    MulFx(ret.old.psi[0],
                          full_rat(u, ret.nflips, ret.old.idx[0], ret.old.inv[0],
                                   AdvancePairing(ret.s), F_hidden_full.re))
                        * _parity_pfa(u.new_idx, u.old_idx, ret.old.idx[0]) * HiddenSign]),
                ret.s)

\* C17: After every advance the cached entry (idx, inv, psi) is the one the
\* update computes from the entry before with any other pairing tensor and
\* any other hidden block, so two runs that differ only in these hold the
\* same cache after every step; the cached psi is old_psi * rat_mf * parity_mf
\* of the visible submatrix, and the amplitude the advance returns is (the
\* jastrow factor times) old_psi times the ratio of the matrix with its hidden
\* block times parity_mf times (-1) ** (Nhidden // 4).
C17_CacheIgnoresPairing ==
    ret.op = "advance" =>
        \E u \in {mf_update(ret.s, ret.s_old, ret.nflips, ret.old.idx[0], F_full.re)} :
            CacheIgnoresPairing(u)

\* an advance by a double flip, after the chain has moved, whose returned
\* amplitude would differ with another pairing tensor
C17_Witness ==
    /\ ValidAdvance /\ ret.nflips = 2 /\ nsteps >= 2
    /\ \E u \in {mf_update(ret.s, ret.s_old, ret.nflips, ret.old.idx[0], F_full.re)} :
          \E p \in AltPairings :
              /\ AdvanceEntryWith(u, p, F_hidden_full.re, ret.old, ret.nflips).psi
                    # AdvanceEntryWith(u, AdvancePairing(ret.s), F_hidden_full.re,
                                       ret.old, ret.nflips).psi
              /\ AdvanceEntryWith(u, AdvancePairing(ret.s), F_hidden_full.re,
                                  ret.old, ret.nflips).psi # cache[0].psi[0]

====
